---- MODULE Spec2Model ----
(***************************************************************************)
(* Lifecycle hooks of the agent runtime: the prompt-submission pipeline    *)
(* (hooks/user-prompt-submit.py) and the telemetry sender                  *)
(* (hooks/agent-observability.py).                                         *)
(*                                                                         *)
(* Text is a sequence of one-character strings, so that substring search,  *)
(* case folding and regular-expression search are computed character by    *)
(* character.  A dict is a function whose domain is the set of its keys.   *)
(***************************************************************************)
EXTENDS Integers, Sequences, FiniteSets, TLC

\* Optional[...] values: None is the empty tuple, a value is a one-tuple
NoValue == <<>>
Some(v) == <<v>>

(***************************************************************************)
(* Bounds of the model.                                                    *)
(***************************************************************************)
\* invocations of a hook script by the host runtime in one behaviour
MaxRuns == 2
\* pieces concatenated into a prompt handed to the pure functions
MaxPieces == 2

(***************************************************************************)
(* str.lower() and the `in` operator on strings.                           *)
(***************************************************************************)
UpperToLower ==
    ("A" :> "a") @@ ("B" :> "b") @@ ("C" :> "c") @@ ("D" :> "d") @@ ("E" :> "e")
 @@ ("F" :> "f") @@ ("G" :> "g") @@ ("H" :> "h") @@ ("I" :> "i") @@ ("J" :> "j")
 @@ ("K" :> "k") @@ ("L" :> "l") @@ ("M" :> "m") @@ ("N" :> "n") @@ ("O" :> "o")
 @@ ("P" :> "p") @@ ("Q" :> "q") @@ ("R" :> "r") @@ ("S" :> "s") @@ ("T" :> "t")
 @@ ("U" :> "u") @@ ("V" :> "v") @@ ("W" :> "w") @@ ("X" :> "x") @@ ("Y" :> "y")
 @@ ("Z" :> "z")

LowerChar(c) ==
    IF c \in DOMAIN UpperToLower THEN UpperToLower[c] ELSE c

\* s.lower()
Lower(s) ==
    [i \in 1..Len(s) |-> LowerChar(s[i])]

\* needle in haystack
Contains(haystack, needle) ==
    \E off \in 0..(Len(haystack) - Len(needle)) :
        \A j \in 1..Len(needle) : haystack[off + j] = needle[j]

(***************************************************************************)
(* re.search(pattern, text, re.IGNORECASE) for the patterns of             *)
(* load_security_filters: a pattern is a sequence of items, an item is a   *)
(* character test under a quantifier.                                      *)
(***************************************************************************)
Whitespace == {" ", "\t", "\n", "\r", "\f"}

Lit(c) == [kind |-> "lit", chars |-> {c}]
Ws == [kind |-> "ws", chars |-> {}]
Dot == [kind |-> "dot", chars |-> {}]
In(cs) == [kind |-> "in", chars |-> cs]
NotIn(cs) == [kind |-> "notin", chars |-> cs]

One(t) == [test |-> t, quant |-> "1"]
Plus(t) == [test |-> t, quant |-> "+"]
Star(t) == [test |-> t, quant |-> "*"]
Opt(t) == [test |-> t, quant |-> "?"]

\* does the character ch pass the test t, ignoring case
CharMatches(t, ch) ==
    CASE t.kind = "lit" -> LowerChar(ch) \in {LowerChar(c) : c \in t.chars}
      [] t.kind = "ws" -> ch \in Whitespace
      [] t.kind = "dot" -> ch # "\n"
      [] t.kind = "in" -> LowerChar(ch) \in {LowerChar(c) : c \in t.chars}
      [] t.kind = "notin" -> LowerChar(ch) \notin {LowerChar(c) : c \in t.chars}

\* positions after a run of one or more characters passing t, from position p
RunsFrom(t, text, p) ==
    {q \in (p + 1)..(Len(text) + 1) :
        \A j \in p..(q - 1) : CharMatches(t, text[j])}

\* positions the matcher can be at after the item, from any position of ps
StepItem(item, text, ps) ==
    LET one == {p + 1 : p \in {q \in ps : q <= Len(text) /\ CharMatches(item.test, text[q])}}
        many == UNION {RunsFrom(item.test, text, p) : p \in ps}
    IN  CASE item.quant = "1" -> one
          [] item.quant = "?" -> ps \cup one
          [] item.quant = "+" -> many
          [] item.quant = "*" -> ps \cup many

RECURSIVE MatchItems(_, _, _, _)
MatchItems(re, k, text, ps) ==
    IF k > Len(re) \/ ps = {} THEN ps
    ELSE MatchItems(re, k + 1, text, StepItem(re[k], text, ps))

\* re.search(re, text, re.IGNORECASE) is not None
ReSearchIgnoreCase(re, text) ==
    MatchItems(re, 1, text, 1..(Len(text) + 1)) # {}

load_security_filters ==
    <<
      [pattern |-> "rm\\s+-rf\\s+/",
       re |-> <<One(Lit("r")), One(Lit("m")), Plus(Ws), One(Lit("-")), One(Lit("r")), One(Lit("f")), Plus(Ws), One(Lit("/"))>>],
      [pattern |-> "sudo\\s+rm",
       re |-> <<One(Lit("s")), One(Lit("u")), One(Lit("d")), One(Lit("o")), Plus(Ws), One(Lit("r")), One(Lit("m"))>>],
      [pattern |-> "format\\s+c:",
       re |-> <<One(Lit("f")), One(Lit("o")), One(Lit("r")), One(Lit("m")), One(Lit("a")), One(Lit("t")), Plus(Ws), One(Lit("c")), One(Lit(":"))>>],
      [pattern |-> "del\\s+/s\\s+/q",
       re |-> <<One(Lit("d")), One(Lit("e")), One(Lit("l")), Plus(Ws), One(Lit("/")), One(Lit("s")), Plus(Ws), One(Lit("/")), One(Lit("q"))>>],
      [pattern |-> "DROP\\s+DATABASE",
       re |-> <<One(Lit("D")), One(Lit("R")), One(Lit("O")), One(Lit("P")), Plus(Ws), One(Lit("D")), One(Lit("A")), One(Lit("T")), One(Lit("A")), One(Lit("B")), One(Lit("A")), One(Lit("S")), One(Lit("E"))>>],
      [pattern |-> "eval\\s*\\(",
       re |-> <<One(Lit("e")), One(Lit("v")), One(Lit("a")), One(Lit("l")), Star(Ws), One(Lit("("))>>],
      [pattern |-> "exec\\s*\\(",
       re |-> <<One(Lit("e")), One(Lit("x")), One(Lit("e")), One(Lit("c")), Star(Ws), One(Lit("("))>>],
      [pattern |-> "system\\s*\\(",
       re |-> <<One(Lit("s")), One(Lit("y")), One(Lit("s")), One(Lit("t")), One(Lit("e")), One(Lit("m")), Star(Ws), One(Lit("("))>>],
      [pattern |-> "shell_exec",
       re |-> <<One(Lit("s")), One(Lit("h")), One(Lit("e")), One(Lit("l")), One(Lit("l")), One(Lit("_")), One(Lit("e")), One(Lit("x")), One(Lit("e")), One(Lit("c"))>>],
      [pattern |-> "passthru",
       re |-> <<One(Lit("p")), One(Lit("a")), One(Lit("s")), One(Lit("s")), One(Lit("t")), One(Lit("h")), One(Lit("r")), One(Lit("u"))>>],
      [pattern |-> "curl.*\\|\\s*sh",
       re |-> <<One(Lit("c")), One(Lit("u")), One(Lit("r")), One(Lit("l")), Star(Dot), One(Lit("|")), Star(Ws), One(Lit("s")), One(Lit("h"))>>],
      [pattern |-> "wget.*\\|\\s*sh",
       re |-> <<One(Lit("w")), One(Lit("g")), One(Lit("e")), One(Lit("t")), Star(Dot), One(Lit("|")), Star(Ws), One(Lit("s")), One(Lit("h"))>>],
      [pattern |-> "\\.\\.\\/.*\\.\\.\\/",
       re |-> <<One(Lit(".")), One(Lit(".")), One(Lit("/")), Star(Dot), One(Lit(".")), One(Lit(".")), One(Lit("/"))>>],
      [pattern |-> "password\\s*=\\s*[\\\"'][^\\\"']+[\\\"']",
       re |-> <<One(Lit("p")), One(Lit("a")), One(Lit("s")), One(Lit("s")), One(Lit("w")), One(Lit("o")), One(Lit("r")), One(Lit("d")), Star(Ws), One(Lit("=")), Star(Ws), One(In({"\"","'"})), Plus(NotIn({"\"","'"})), One(In({"\"","'"}))>>],
      [pattern |-> "secret\\s*=\\s*[\\\"'][^\\\"']+[\\\"']",
       re |-> <<One(Lit("s")), One(Lit("e")), One(Lit("c")), One(Lit("r")), One(Lit("e")), One(Lit("t")), Star(Ws), One(Lit("=")), Star(Ws), One(In({"\"","'"})), Plus(NotIn({"\"","'"})), One(In({"\"","'"}))>>],
      [pattern |-> "api[_-]?key\\s*=\\s*[\\\"'][^\\\"']+[\\\"']",
       re |-> <<One(Lit("a")), One(Lit("p")), One(Lit("i")), Opt(In({"_","-"})), One(Lit("k")), One(Lit("e")), One(Lit("y")), Star(Ws), One(Lit("=")), Star(Ws), One(In({"\"","'"})), Plus(NotIn({"\"","'"})), One(In({"\"","'"}))>>]
    >>
DefaultKeywordPatterns ==
       ("engineering" :> (
           ("ai-engineer" :> <<<<"a","i">>, <<"m","a","c","h","i","n","e"," ","l","e","a","r","n","i","n","g">>, <<"n","e","u","r","a","l">>, <<"m","o","d","e","l">>, <<"m","l">>, <<"a","r","t","i","f","i","c","i","a","l"," ","i","n","t","e","l","l","i","g","e","n","c","e">>>>)
        @@ ("rapid-prototyper" :> <<<<"p","r","o","t","o","t","y","p","e">>, <<"m","v","p">>, <<"q","u","i","c","k">>, <<"f","a","s","t">>, <<"d","e","m","o">>, <<"r","a","p","i","d">>>>)
        @@ ("test-writer-fixer" :> <<<<"t","e","s","t">>, <<"t","e","s","t","i","n","g">>, <<"u","n","i","t">>, <<"i","n","t","e","g","r","a","t","i","o","n">>, <<"b","u","g">>, <<"c","o","v","e","r","a","g","e">>>>)
        @@ ("performance-optimizer" :> <<<<"p","e","r","f","o","r","m","a","n","c","e">>, <<"s","p","e","e","d">>, <<"o","p","t","i","m","i","z","e">>, <<"s","l","o","w">>, <<"l","a","t","e","n","c","y">>, <<"b","u","n","d","l","e">>>>)
        @@ ("security-auditor" :> <<<<"s","e","c","u","r","i","t","y">>, <<"v","u","l","n","e","r","a","b","i","l","i","t","y">>, <<"a","u","d","i","t">>, <<"s","a","f","e">>, <<"b","r","e","a","c","h">>, <<"e","x","p","l","o","i","t">>>>)
        @@ ("code-reviewer" :> <<<<"r","e","v","i","e","w">>, <<"q","u","a","l","i","t","y">>, <<"s","t","a","n","d","a","r","d","s">>, <<"r","e","f","a","c","t","o","r">>, <<"b","e","s","t"," ","p","r","a","c","t","i","c","e","s">>>>)
        @@ ("devops-automator" :> <<<<"d","e","p","l","o","y">>, <<"p","i","p","e","l","i","n","e">>, <<"c","i","/","c","d">>, <<"a","u","t","o","m","a","t","i","o","n">>, <<"d","o","c","k","e","r">>, <<"k","u","b","e","r","n","e","t","e","s">>>>)
    ))
    @@ ("product" :> (
           ("feedback-synthesizer" :> <<<<"f","e","e","d","b","a","c","k">>, <<"c","o","m","p","l","a","i","n","t","s">>, <<"u","s","e","r","s">>, <<"i","s","s","u","e","s">>, <<"p","r","o","b","l","e","m","s">>, <<"s","a","t","i","s","f","a","c","t","i","o","n">>>>)
        @@ ("trend-researcher" :> <<<<"t","r","e","n","d","s">>, <<"v","i","r","a","l">>, <<"p","o","p","u","l","a","r">>, <<"m","a","r","k","e","t">>, <<"r","e","s","e","a","r","c","h">>, <<"a","n","a","l","y","s","i","s">>>>)
        @@ ("feature-prioritizer" :> <<<<"p","r","i","o","r","i","t","y">>, <<"b","a","c","k","l","o","g">>, <<"f","e","a","t","u","r","e","s">>, <<"r","o","a","d","m","a","p">>, <<"p","l","a","n","n","i","n","g">>, <<"s","p","r","i","n","t">>>>)
        @@ ("user-story-writer" :> <<<<"s","t","o","r","y">>, <<"r","e","q","u","i","r","e","m","e","n","t","s">>, <<"s","p","e","c","s">>, <<"d","o","c","u","m","e","n","t","a","t","i","o","n">>, <<"u","s","e","r"," ","n","e","e","d","s">>>>)
        @@ ("metrics-analyzer" :> <<<<"m","e","t","r","i","c","s">>, <<"a","n","a","l","y","t","i","c","s">>, <<"k","p","i">>, <<"d","a","t","a">>, <<"p","e","r","f","o","r","m","a","n","c","e">>, <<"t","r","a","c","k","i","n","g">>>>)
    ))
    @@ ("marketing" :> (
           ("growth-hacker" :> <<<<"g","r","o","w","t","h">>, <<"v","i","r","a","l">>, <<"m","a","r","k","e","t","i","n","g">>, <<"a","c","q","u","i","s","i","t","i","o","n">>, <<"c","o","n","v","e","r","s","i","o","n">>, <<"f","u","n","n","e","l">>>>)
        @@ ("tiktok-strategist" :> <<<<"t","i","k","t","o","k">>, <<"s","o","c","i","a","l">>, <<"c","o","n","t","e","n","t">>, <<"v","i","r","a","l">>, <<"e","n","g","a","g","e","m","e","n","t">>, <<"i","n","f","l","u","e","n","c","e","r">>>>)
        @@ ("seo-optimizer" :> <<<<"s","e","o">>, <<"s","e","a","r","c","h">>, <<"g","o","o","g","l","e">>, <<"r","a","n","k","i","n","g">>, <<"o","p","t","i","m","i","z","a","t","i","o","n">>, <<"k","e","y","w","o","r","d","s">>>>)
        @@ ("brand-voice-keeper" :> <<<<"b","r","a","n","d">>, <<"v","o","i","c","e">>, <<"m","e","s","s","a","g","i","n","g">>, <<"t","o","n","e">>, <<"c","o","m","m","u","n","i","c","a","t","i","o","n">>, <<"s","t","y","l","e">>>>)
        @@ ("campaign-orchestrator" :> <<<<"c","a","m","p","a","i","g","n">>, <<"m","a","r","k","e","t","i","n","g">>, <<"c","h","a","n","n","e","l","s">>, <<"c","o","o","r","d","i","n","a","t","i","o","n">>, <<"a","d","v","e","r","t","i","s","i","n","g">>>>)
    ))
    @@ ("design" :> (
           ("ui-designer" :> <<<<"u","i">>, <<"i","n","t","e","r","f","a","c","e">>, <<"d","e","s","i","g","n">>, <<"l","a","y","o","u","t">>, <<"c","o","m","p","o","n","e","n","t","s">>, <<"w","i","r","e","f","r","a","m","e">>>>)
        @@ ("whimsy-injector" :> <<<<"w","h","i","m","s","y">>, <<"d","e","l","i","g","h","t">>, <<"f","u","n">>, <<"e","n","g","a","g","i","n","g">>, <<"i","n","t","e","r","a","c","t","i","v","e">>, <<"c","r","e","a","t","i","v","e">>>>)
        @@ ("accessibility-guardian" :> <<<<"a","c","c","e","s","s","i","b","i","l","i","t","y">>, <<"a","1","1","y">>, <<"w","c","a","g">>, <<"i","n","c","l","u","s","i","v","e">>, <<"d","i","s","a","b","i","l","i","t","y">>, <<"s","c","r","e","e","n"," ","r","e","a","d","e","r">>>>)
        @@ ("brand-consistency-enforcer" :> <<<<"b","r","a","n","d">>, <<"c","o","n","s","i","s","t","e","n","c","y">>, <<"d","e","s","i","g","n"," ","s","y","s","t","e","m">>, <<"g","u","i","d","e","l","i","n","e","s">>, <<"s","t","a","n","d","a","r","d","s">>>>)
        @@ ("user-experience-optimizer" :> <<<<"u","x">>, <<"u","s","e","r"," ","e","x","p","e","r","i","e","n","c","e">>, <<"f","l","o","w">>, <<"u","s","a","b","i","l","i","t","y">>, <<"j","o","u","r","n","e","y">>, <<"p","e","r","s","o","n","a">>>>)
    ))
    @@ ("project-management" :> (
           ("sprint-master" :> <<<<"s","p","r","i","n","t">>, <<"a","g","i","l","e">>, <<"s","c","r","u","m">>, <<"c","e","r","e","m","o","n","i","e","s">>, <<"p","l","a","n","n","i","n","g">>, <<"r","e","t","r","o","s","p","e","c","t","i","v","e">>>>)
        @@ ("risk-assessor" :> <<<<"r","i","s","k">>, <<"b","l","o","c","k","e","r">>, <<"d","e","p","e","n","d","e","n","c","i","e","s">>, <<"t","i","m","e","l","i","n","e">>, <<"i","s","s","u","e","s">>, <<"m","i","t","i","g","a","t","i","o","n">>>>)
        @@ ("stakeholder-communicator" :> <<<<"s","t","a","k","e","h","o","l","d","e","r">>, <<"c","o","m","m","u","n","i","c","a","t","i","o","n">>, <<"s","t","a","t","u","s">>, <<"r","e","p","o","r","t","i","n","g">>, <<"u","p","d","a","t","e","s">>>>)
        @@ ("resource-allocator" :> <<<<"r","e","s","o","u","r","c","e","s">>, <<"c","a","p","a","c","i","t","y">>, <<"a","l","l","o","c","a","t","i","o","n">>, <<"t","e","a","m">>, <<"w","o","r","k","l","o","a","d">>, <<"b","a","n","d","w","i","d","t","h">>>>)
        @@ ("deadline-enforcer" :> <<<<"d","e","a","d","l","i","n","e">>, <<"t","i","m","e","l","i","n","e">>, <<"s","c","h","e","d","u","l","e">>, <<"d","e","l","i","v","e","r","y">>, <<"m","i","l","e","s","t","o","n","e","s">>, <<"d","u","e"," ","d","a","t","e">>>>)
    ))
    @@ ("operations" :> (
           ("workflow-optimizer" :> <<<<"w","o","r","k","f","l","o","w">>, <<"p","r","o","c","e","s","s">>, <<"e","f","f","i","c","i","e","n","c","y">>, <<"o","p","t","i","m","i","z","a","t","i","o","n">>, <<"b","o","t","t","l","e","n","e","c","k">>, <<"s","t","r","e","a","m","l","i","n","e">>>>)
        @@ ("documentation-maintainer" :> <<<<"d","o","c","u","m","e","n","t","a","t","i","o","n">>, <<"d","o","c","s">>, <<"k","n","o","w","l","e","d","g","e">>, <<"w","i","k","i">>, <<"g","u","i","d","e">>, <<"m","a","n","u","a","l">>>>)
        @@ ("quality-assurance-coordinator" :> <<<<"q","a">>, <<"q","u","a","l","i","t","y">>, <<"t","e","s","t","i","n","g">>, <<"v","a","l","i","d","a","t","i","o","n">>, <<"s","t","a","n","d","a","r","d","s">>, <<"c","o","m","p","l","i","a","n","c","e">>>>)
        @@ ("environment-manager" :> <<<<"e","n","v","i","r","o","n","m","e","n","t">>, <<"d","e","p","l","o","y","m","e","n","t">>, <<"s","t","a","g","i","n","g">>, <<"p","r","o","d","u","c","t","i","o","n">>, <<"i","n","f","r","a","s","t","r","u","c","t","u","r","e">>>>)
        @@ ("incident-responder" :> <<<<"i","n","c","i","d","e","n","t">>, <<"e","m","e","r","g","e","n","c","y">>, <<"o","u","t","a","g","e">>, <<"c","r","i","t","i","c","a","l">>, <<"u","r","g","e","n","t">>, <<"d","o","w","n","t","i","m","e">>>>)
    ))
    @@ ("testing" :> (
           ("automated-tester" :> <<<<"a","u","t","o","m","a","t","e","d">>, <<"t","e","s","t","i","n","g">>, <<"s","u","i","t","e">>, <<"c","o","v","e","r","a","g","e">>, <<"c","o","n","t","i","n","u","o","u","s">>, <<"r","e","g","r","e","s","s","i","o","n">>>>)
        @@ ("manual-tester" :> <<<<"m","a","n","u","a","l">>, <<"e","x","p","l","o","r","a","t","o","r","y">>, <<"t","e","s","t","i","n","g">>, <<"v","a","l","i","d","a","t","i","o","n">>, <<"v","e","r","i","f","i","c","a","t","i","o","n">>, <<"u","s","e","r"," ","t","e","s","t","i","n","g">>>>)
        @@ ("load-tester" :> <<<<"l","o","a","d">>, <<"p","e","r","f","o","r","m","a","n","c","e">>, <<"s","t","r","e","s","s">>, <<"s","c","a","l","a","b","i","l","i","t","y">>, <<"c","a","p","a","c","i","t","y">>, <<"b","e","n","c","h","m","a","r","k">>>>)
        @@ ("security-tester" :> <<<<"s","e","c","u","r","i","t","y">>, <<"p","e","n","e","t","r","a","t","i","o","n">>, <<"v","u","l","n","e","r","a","b","i","l","i","t","y">>, <<"e","x","p","l","o","i","t">>, <<"a","t","t","a","c","k">>, <<"p","e","n"," ","t","e","s","t">>>>)
        @@ ("compatibility-tester" :> <<<<"c","o","m","p","a","t","i","b","i","l","i","t","y">>, <<"c","r","o","s","s","-","p","l","a","t","f","o","r","m">>, <<"b","r","o","w","s","e","r">>, <<"d","e","v","i","c","e">>, <<"m","o","b","i","l","e">>, <<"r","e","s","p","o","n","s","i","v","e">>>>)
    ))

(***************************************************************************)
(* Security Filter                                                         *)
(***************************************************************************)
Issue(pattern) == <<"Potential security risk: ", pattern>>

\* SecurityLoop that leaves the loop at the first pattern found
RECURSIVE SecurityLoopFirstMatch(_, _, _, _)
SecurityLoopFirstMatch(filters, k, prompt, issues) ==
    IF k > Len(filters) THEN issues
    ELSE IF ReSearchIgnoreCase(filters[k].re, prompt)
    THEN Append(issues, Issue(filters[k].pattern))
    ELSE SecurityLoopFirstMatch(filters, k + 1, prompt, issues)

RECURSIVE SecurityLoop(_, _, _, _)
SecurityLoop(filters, k, prompt, issues) ==
    IF k > Len(filters) THEN issues
    ELSE SecurityLoop(filters, k + 1, prompt,
            IF ReSearchIgnoreCase(filters[k].re, prompt)
            THEN Append(issues, Issue(filters[k].pattern))
            ELSE issues)

detect_security_issues(filters, prompt) ==
    SecurityLoop(filters, 1, prompt, <<>>)

(***************************************************************************)
(* Agent Detector                                                          *)
(***************************************************************************)
\* KeywordLoop that looks the keyword up as written, not lowered
RECURSIVE KeywordLoopAsWritten(_, _, _, _)
KeywordLoopAsWritten(keywords, k, prompt_lower, matches) ==
    IF k > Len(keywords) THEN matches
    ELSE KeywordLoopAsWritten(keywords, k + 1, prompt_lower,
            IF Contains(prompt_lower, keywords[k])
            THEN Append(matches, keywords[k])
            ELSE matches)

RECURSIVE KeywordLoop(_, _, _, _)
KeywordLoop(keywords, k, prompt_lower, matches) ==
    IF k > Len(keywords) THEN matches
    ELSE KeywordLoop(keywords, k + 1, prompt_lower,
            IF Contains(prompt_lower, Lower(keywords[k]))
            THEN Append(matches, keywords[k])
            ELSE matches)

detect_agents(keyword_patterns, prompt) ==
    LET prompt_lower == Lower(prompt)
        matches(category, agent_name) ==
            KeywordLoop(keyword_patterns[category][agent_name], 1, prompt_lower, <<>>)
        hit(category) ==
            {a \in DOMAIN keyword_patterns[category] : matches(category, a) # <<>>}
    IN  [category \in {c \in DOMAIN keyword_patterns : hit(c) # {}} |->
            [agent_name \in hit(category) |-> matches(category, agent_name)]]

(***************************************************************************)
(* enhance_prompt                                                          *)
(***************************************************************************)
RECURSIVE SumLen(_, _)
SumLen(d, keys) ==
    IF keys = {} THEN 0
    ELSE LET k == CHOOSE x \in keys : TRUE
         IN  Cardinality(DOMAIN d[k]) + SumLen(d, keys \ {k})

\* " | ".join(parts), each part a sequence of text fragments
RECURSIVE Join(_, _)
Join(parts, sep) ==
    IF parts = <<>> THEN <<>>
    ELSE IF Len(parts) = 1 THEN parts[1]
    ELSE parts[1] \o <<sep>> \o Join(Tail(parts), sep)

\* enhance_prompt that counts the categories, not the agents
enhance_prompt_counting_categories(original_prompt, detected_agents, project_context) ==
    LET e1 == IF project_context.has_claude_md
              THEN <<<<"Local CLAUDE.md context available">>>> ELSE <<>>
        e2 == IF project_context.git_repository
              THEN <<<<"Git repository detected">>>> ELSE <<>>
        e3 == IF DOMAIN detected_agents # {}
              THEN <<<<ToString(Cardinality(DOMAIN detected_agents)),
                       " specialized agents detected and available">>>>
              ELSE <<>>
        enhancements == e1 \o e2 \o e3
    IN  IF enhancements # <<>>
        THEN original_prompt \o <<"\n\n<!-- System Context: ">>
                \o Join(enhancements, " | ") \o <<" -->">>
        ELSE original_prompt

\* the enhanced prompt: the characters of the prompt, then the fragments of the
\* annotation (the pictograph that opens each fragment is left out)
enhance_prompt(original_prompt, detected_agents, project_context) ==
    LET e1 == IF project_context.has_claude_md
              THEN <<<<"Local CLAUDE.md context available">>>> ELSE <<>>
        e2 == IF project_context.git_repository
              THEN <<<<"Git repository detected">>>> ELSE <<>>
        e3 == IF DOMAIN detected_agents # {}
              THEN <<<<ToString(SumLen(detected_agents, DOMAIN detected_agents)),
                       " specialized agents detected and available">>>>
              ELSE <<>>
        enhancements == e1 \o e2 \o e3
    IN  IF enhancements # <<>>
        THEN original_prompt \o <<"\n\n<!-- System Context: ">>
                \o Join(enhancements, " | ") \o <<" -->">>
        ELSE original_prompt

\* the stopwords of extract_keywords
stopwords ==
    {<<"a","l","l">>, <<"a","n","d">>, <<"a","r","e">>, <<"b","o","y">>, <<"b","u","t">>, <<"c","a","n">>,
     <<"d","a","y">>, <<"d","i","d">>, <<"f","o","r">>, <<"g","e","t">>, <<"h","a","d">>, <<"h","a","s">>,
     <<"h","e","r">>, <<"h","i","m">>, <<"h","i","s">>, <<"h","o","w">>, <<"i","t","s">>, <<"l","e","t">>,
     <<"m","a","n">>, <<"n","e","w">>, <<"n","o","t">>, <<"n","o","w">>, <<"o","l","d">>, <<"o","n","e">>,
     <<"o","u","r">>, <<"o","u","t">>, <<"p","u","t">>, <<"s","a","y">>, <<"s","e","e">>, <<"s","h","e">>,
     <<"t","h","e">>, <<"t","o","o">>, <<"t","w","o">>, <<"u","s","e">>, <<"w","a","s">>, <<"w","a","y">>,
     <<"w","h","o">>, <<"y","o","u">>}

(***************************************************************************)
(* extract_keywords                                                        *)
(***************************************************************************)
WordChars ==
    {"a","b","c","d","e","f","g","h","i","j","k","l","m","n","o","p","q","r",
     "s","t","u","v","w","x","y","z","0","1","2","3","4","5","6","7","8","9","_"}

\* the de-duplicated keywords; their order in the list is the order of a set
extract_keywords(prompt) ==
    LET text == Lower(prompt)
        isWord(i) == text[i] \in WordChars
        words == {SubSeq(text, i, j) : <<i, j>> \in
                    {ij \in (1..Len(text)) \X (1..Len(text)) :
                        /\ ij[2] - ij[1] + 1 >= 3
                        /\ \A k \in ij[1]..ij[2] : isWord(k)
                        /\ (ij[1] = 1 \/ ~isWord(ij[1] - 1))
                        /\ (ij[2] = Len(text) \/ ~isWord(ij[2] + 1))}}
    IN  words \ stopwords

(***************************************************************************)
(* Configuration loading                                                   *)
(***************************************************************************)
File(state, json) == [state |-> state, json |-> json]

\* a keyword-patterns.json of a project: mixed-case keywords, an agent
\* without keywords, a category without agents
FixtureKeywordPatterns ==
       ("ops" :> (   ("cleaner" :> <<<<"R","M">>, <<"s","u","d","o">>, <<"r","m"," ">>>>)
                  @@ ("idle" :> <<>>)))
    @@ ("qa" :> (   ("tester" :> <<<<"T","e","s","t">>, <<"e","s","t">>, <<"s","l","o","w","e","r">>>>)
                 @@ ("speed" :> <<<<"s","l","o","w">>>>)))
    @@ ("none" :> <<>>)

FixtureAgentRegistry == ("cleaner" :> "ops")

KeywordPatternFiles ==
    {File("absent", <<>>), File("unreadable", <<>>), File("malformed", <<>>),
     File("ok", FixtureKeywordPatterns)}

AgentRegistryFiles ==
    {File("absent", <<>>), File("unreadable", <<>>), File("malformed", <<>>),
     File("ok", FixtureAgentRegistry)}

\* the value returned, or the exception that leaves the method
Returned(v) == [raised |-> FALSE, value |-> v]
Raised(e) == [raised |-> TRUE, value |-> e]

load_keyword_patterns(f) ==
    IF f.state = "absent" THEN Returned(DefaultKeywordPatterns)
    ELSE IF f.state = "unreadable" THEN Raised("OSError")
    ELSE IF f.state = "malformed" THEN Raised("JSONDecodeError")
    ELSE Returned(f.json)

load_agent_registry(f) ==
    IF f.state = "absent" THEN Returned(<<>>)
    ELSE IF f.state = "unreadable" THEN Raised("OSError")
    ELSE IF f.state = "malformed" THEN Raised("JSONDecodeError")
    ELSE Returned(f.json)

(***************************************************************************)
(* Project Context Probe                                                   *)
(***************************************************************************)
ExcerptLimit == 1000

Min(a, b) == IF a < b THEN a ELSE b

\* Path(cwd).name: the characters behind the last separator
RECURSIVE PathName(_)
PathName(path) ==
    IF path = <<>> THEN <<>>
    ELSE IF \E i \in 1..Len(path) : path[i] = "/"
    THEN PathName(Tail(path))
    ELSE path

ProjectDirs ==
    {[cwd |-> <<"/", "h", "/", "t", "m", "p">>, files |-> {},
      claude_md |-> File("absent", <<>>)],
     [cwd |-> <<"/", "h", "/", "r", "e", "p", "o">>, files |-> {".git"},
      claude_md |-> File("absent", <<>>)],
     [cwd |-> <<"/", "h", "/", "a", "p", "p">>, files |-> {"CLAUDE.md", "package.json"},
      claude_md |-> File("ok", <<"#", " ", "\"", "A", "p", "p", "\"", "\n", "c", ":", "\\", "b", "i", "n">>)],
     [cwd |-> <<"/", "h", "/", "s", "v", "c">>, files |-> {"CLAUDE.md", ".git", ".claude"},
      claude_md |-> File("unreadable", <<>>)]}

\* open(path, 'r', encoding='utf-8').read(): the text of the file as text
\* mode hands it over, every "\r\n" and every lone "\r" read as "\n"
TextModeChar(raw, i) ==
    IF raw[i] = "\r" THEN <<"\n">>
    ELSE IF raw[i] = "\n" /\ i > 1 /\ raw[i - 1] = "\r" THEN <<>>
    ELSE <<raw[i]>>

RECURSIVE TextModeRange(_, _, _)
TextModeRange(raw, lo, hi) ==
    IF lo > hi THEN <<>>
    ELSE IF lo = hi THEN TextModeChar(raw, lo)
    ELSE LET mid == (lo + hi) \div 2
         IN  TextModeRange(raw, lo, mid) \o TextModeRange(raw, mid + 1, hi)

TextModeRead(f) ==
    IF f.state = "unreadable" THEN Raised("PermissionError")
    ELSE IF f.state = "undecodable" THEN Raised("UnicodeDecodeError")
    ELSE Returned(TextModeRange(f.json, 1, Len(f.json)))

\* get_project_context that keeps the whole text of the file
get_project_context_whole_file(dir) ==
    LET context ==
            [working_directory |-> dir.cwd,
             project_name |-> PathName(dir.cwd),
             has_package_json |-> "package.json" \in dir.files,
             has_claude_md |-> "CLAUDE.md" \in dir.files,
             has_local_claude |-> ".claude" \in dir.files,
             git_repository |-> ".git" \in dir.files]
        read == TextModeRead(dir.claude_md)
    IN  IF "CLAUDE.md" \in dir.files /\ ~read.raised
        THEN Returned(context @@ ("claude_md_content" :> read.value))
        ELSE Returned(context)

\* the context, or the exception that leaves get_project_context
get_project_context(dir) ==
    LET context ==
            [working_directory |-> dir.cwd,
             project_name |-> PathName(dir.cwd),
             has_package_json |-> "package.json" \in dir.files,
             has_claude_md |-> "CLAUDE.md" \in dir.files,
             has_local_claude |-> ".claude" \in dir.files,
             git_repository |-> ".git" \in dir.files]
        read == TextModeRead(dir.claude_md)
    IN  IF "CLAUDE.md" \in dir.files /\ ~read.raised
        THEN Returned(context @@ ("claude_md_content" :>
                SubSeq(read.value, 1, Min(ExcerptLimit, Len(read.value)))))
        ELSE Returned(context)

(***************************************************************************)
(* Context Store                                                           *)
(***************************************************************************)
\* what a statement on the store did: the exception it raised or nothing, and
\* the schema objects of the file behind it
Executed(objects) == [raised |-> FALSE, value |-> "done", objects |-> objects]
Rejected(e, objects) == [raised |-> TRUE, value |-> e, objects |-> objects]

\* CREATE ... without IF NOT EXISTS
CreateUnconditionally(objects, name) ==
    IF \E i \in 1..Len(objects) : objects[i] = name
    THEN Rejected("sqlite3.OperationalError: already exists", objects)
    ELSE Executed(Append(objects, name))

\* CREATE ... IF NOT EXISTS
CreateIfNotExists(objects, name) ==
    IF \E i \in 1..Len(objects) : objects[i] = name
    THEN Executed(objects)
    ELSE Executed(Append(objects, name))

\* init_context_db: connect, create the table, create the index
init_context_db(objects, connects) ==
    IF ~connects THEN Rejected("sqlite3.OperationalError", objects)
    ELSE LET table == CreateIfNotExists(objects, "context_memory")
         IN  IF table.raised THEN table
             ELSE CreateIfNotExists(table.objects, "idx_session_timestamp")

\* the Python type of a value, which json.dumps dispatches on: str, bool,
\* list with items of one type, dict with values of one type, dict with a type
\* per key, list with a type per item
PyStr == [t |-> "str"]
PyBool == [t |-> "bool"]
PyList(e) == [t |-> "list", e |-> e]
PyDict(e) == [t |-> "dict", e |-> e]
PyObject(fs) == [t |-> "object", fs |-> fs]
PyTuple(es) == [t |-> "tuple", es |-> es]

\* json.dumps of a character inside a string, written without the escapes
EscapeNothing(c) == <<c>>

\* json.dumps of a character inside a string
Escape(c) ==
    IF c = "\"" THEN <<"\\", "\"">>
    ELSE IF c = "\\" THEN <<"\\", "\\">>
    ELSE IF c = "\n" THEN <<"\\", "n">>
    ELSE IF c = "\r" THEN <<"\\", "r">>
    ELSE IF c = "\t" THEN <<"\\", "t">>
    ELSE <<c>>

RECURSIVE EscapeAll(_)
EscapeAll(s) ==
    IF s = <<>> THEN <<>> ELSE Escape(Head(s)) \o EscapeAll(Tail(s))

\* json.dumps(value, indent=indent): the characters of the JSON text.  A dict
\* key is a name of the model and stands as one element between its quotes;
\* the keys are written in an arbitrary fixed order.  Without indent (-1) the
\* separators are ", " and ": "; with it every item stands on a line of its
\* own, indented by its depth.
NoIndent == -1

Newline(indent, level) ==
    IF indent = NoIndent THEN <<>>
    ELSE <<"\n">> \o [i \in 1..(indent * level) |-> " "]

ItemSeparator(indent, level) ==
    IF indent = NoIndent THEN <<",", " ">> ELSE <<",">> \o Newline(indent, level)

RECURSIVE JsonText(_, _, _, _)
RECURSIVE DumpItems(_, _, _, _, _, _)
RECURSIVE DumpMembers(_, _, _, _, _)
JsonText(value, type, indent, level) ==
    CASE type.t = "str" -> <<"\"">> \o EscapeAll(value) \o <<"\"">>
      [] type.t = "bool" ->
            IF value THEN <<"t", "r", "u", "e">> ELSE <<"f", "a", "l", "s", "e">>
      [] type.t \in {"list", "tuple"} ->
            IF Len(value) = 0 THEN <<"[", "]">>
            ELSE <<"[">> \o Newline(indent, level + 1)
                    \o DumpItems(value, type, 1, Len(value), indent, level + 1)
                    \o Newline(indent, level) \o <<"]">>
      [] type.t \in {"dict", "object"} ->
            IF DOMAIN value = {} THEN <<"{", "}">>
            ELSE <<"{">> \o Newline(indent, level + 1)
                    \o DumpMembers(value, type, DOMAIN value, indent, level + 1)
                    \o Newline(indent, level) \o <<"}">>

\* the items from the k-th to the n-th, each after its separator; the range
\* is written half by half
DumpItems(items, type, k, n, indent, level) ==
    IF k > n THEN <<>>
    ELSE IF k = n
    THEN (IF k = 1 THEN <<>> ELSE ItemSeparator(indent, level))
            \o JsonText(items[k], IF type.t = "list" THEN type.e ELSE type.es[k],
                        indent, level)
    ELSE DumpItems(items, type, k, (k + n) \div 2, indent, level)
            \o DumpItems(items, type, (k + n) \div 2 + 1, n, indent, level)

DumpMembers(value, type, keys, indent, level) ==
    IF keys = {} THEN <<>>
    ELSE LET key == CHOOSE k \in keys : TRUE
         IN  (IF keys = DOMAIN value THEN <<>> ELSE ItemSeparator(indent, level))
                \o <<"\"", key, "\"", ":", " ">>
                \o JsonText(value[key], IF type.t = "dict" THEN type.e ELSE type.fs[key],
                            indent, level)
                \o DumpMembers(value, type, keys \ {key}, indent, level)

json_dumps(value, type) == JsonText(value, type, NoIndent, 0)

\* json.loads(text): the recursive-descent decoder; with the value it gives
\* the type of the value
Parsed(v, type, p) == [ok |-> TRUE, v |-> v, type |-> type, p |-> p]
Failed == [ok |-> FALSE, v |-> <<>>, type |-> PyStr, p |-> 0]

RECURSIVE SkipWs(_, _)
SkipWs(text, p) ==
    IF p <= Len(text) /\ text[p] \in Whitespace THEN SkipWs(text, p + 1) ELSE p

Unescape(c) ==
    IF c = "n" THEN <<"\n">>
    ELSE IF c = "r" THEN <<"\r">>
    ELSE IF c = "t" THEN <<"\t">>
    ELSE IF c \in {"\"", "\\", "/"} THEN <<c>>
    ELSE <<>>

\* the characters of a string, from behind the opening quote to the closing
\* quote; a raw control character ends the decoding
RECURSIVE ParseString(_, _, _)
ParseString(text, p, acc) ==
    IF p > Len(text) THEN Failed
    ELSE IF text[p] = "\"" THEN Parsed(acc, PyStr, p + 1)
    ELSE IF text[p] = "\\"
    THEN IF p + 1 > Len(text) \/ Unescape(text[p + 1]) = <<>> THEN Failed
         ELSE ParseString(text, p + 2, acc \o Unescape(text[p + 1]))
    ELSE IF text[p] \in {"\n", "\r", "\t"} THEN Failed
    ELSE ParseString(text, p + 1, Append(acc, text[p]))

RECURSIVE ParseValue(_, _)
RECURSIVE ParseItem(_, _)
RECURSIVE ParseItemsLoop(_, _, _)
RECURSIVE ParseItems(_, _, _, _)
RECURSIVE ParseMembers(_, _, _, _)
ParseValue(text, p) ==
    IF p > Len(text) THEN Failed
    ELSE IF text[p] = "\"" THEN ParseString(text, p + 1, <<>>)
    ELSE IF text[p] = "["
    THEN LET q == SkipWs(text, p + 1)
         IN  IF q <= Len(text) /\ text[q] = "]" THEN Parsed(<<>>, PyTuple(<<>>), q + 1)
             ELSE ParseItems(text, q, <<>>, <<>>)
    ELSE IF text[p] = "{"
    THEN LET q == SkipWs(text, p + 1)
         IN  IF q <= Len(text) /\ text[q] = "}" THEN Parsed(<<>>, PyObject(<<>>), q + 1)
             ELSE ParseMembers(text, q, <<>>, <<>>)
    ELSE IF p + 3 <= Len(text) /\ SubSeq(text, p, p + 3) = <<"t", "r", "u", "e">>
    THEN Parsed(TRUE, PyBool, p + 4)
    ELSE IF p + 4 <= Len(text) /\ SubSeq(text, p, p + 4) = <<"f", "a", "l", "s", "e">>
    THEN Parsed(FALSE, PyBool, p + 5)
    ELSE Failed

\* one turn of the loop over the items of an array: the item, then the
\* closing bracket, which ends the loop, or a comma
ParseItem(text, at) ==
    LET r == ParseValue(text, at.p)
        s == SkipWs(text, r.p)
        acc == Append(at.acc, r.v)
        types == Append(at.types, r.type)
    IN  IF ~r.ok \/ s > Len(text) THEN [at EXCEPT !.ok = FALSE, !.done = TRUE]
        ELSE IF text[s] = "]"
        THEN [ok |-> TRUE, done |-> TRUE, p |-> s + 1, acc |-> acc, types |-> types]
        ELSE IF text[s] = ","
        THEN [ok |-> TRUE, done |-> FALSE, p |-> SkipWs(text, s + 1),
              acc |-> acc, types |-> types]
        ELSE [at EXCEPT !.ok = FALSE, !.done = TRUE]

\* at most n turns of the loop, taken half by half
ParseItemsLoop(text, at, n) ==
    IF at.done \/ n = 0 THEN at
    ELSE IF n = 1 THEN ParseItem(text, at)
    ELSE LET half == ParseItemsLoop(text, at, n \div 2)
         IN  IF half.done THEN half
             ELSE ParseItemsLoop(text, half, n - n \div 2)

\* the loop runs until the bracket closes or the decoding fails: an array
\* has fewer items than the text has characters
ParseItems(text, p, acc, types) ==
    LET end == ParseItemsLoop(text,
                              [ok |-> TRUE, done |-> FALSE, p |-> p,
                               acc |-> acc, types |-> types],
                              Len(text))
    IN  IF end.ok /\ end.done THEN Parsed(end.acc, PyTuple(end.types), end.p)
        ELSE Failed

ParseMembers(text, p, acc, types) ==
    IF p + 2 > Len(text) \/ text[p] # "\"" \/ text[p + 2] # "\"" THEN Failed
    ELSE LET key == text[p + 1]
             q == SkipWs(text, p + 3)
             r == ParseValue(text, SkipWs(text, q + 1))
             s == SkipWs(text, r.p)
             members == (key :> r.v) @@ acc
             fs == (key :> r.type) @@ types
         IN  IF q > Len(text) \/ text[q] # ":" THEN Failed
             ELSE IF ~r.ok \/ s > Len(text) THEN Failed
             ELSE IF text[s] = "}" THEN Parsed(members, PyObject(fs), s + 1)
             ELSE IF text[s] = "," THEN ParseMembers(text, SkipWs(text, s + 1), members, fs)
             ELSE Failed

json_loads(text) ==
    LET r == ParseValue(text, SkipWs(text, 1))
    IN  IF r.ok /\ SkipWs(text, r.p) > Len(text)
        THEN [raised |-> FALSE, value |-> r.v, type |-> r.type]
        ELSE [raised |-> TRUE, value |-> "JSONDecodeError", type |-> PyStr]

\* the types of the values store_context serializes
DetectedAgentsType == PyDict(PyDict(PyList(PyStr)))

ProjectContextType(context) ==
    PyObject([key \in DOMAIN context |->
                IF key \in {"working_directory", "project_name", "claude_md_content"}
                THEN PyStr ELSE PyBool])

\* json.dumps of list(set(...)): the array of the words, whose order the
\* language leaves open; the text is kept as the set it lists
json_dumps_unordered(words) == [json_array_of |-> words]

ContextRow(id, session_id, timestamp, prompt, agents, context) ==
    [id |-> id,
     session_id |-> session_id,
     timestamp |-> timestamp,
     user_prompt |-> prompt,
     detected_agents |-> json_dumps(agents, DetectedAgentsType),
     context_keywords |-> json_dumps_unordered(extract_keywords(prompt)),
     project_context |-> json_dumps(context, ProjectContextType(context))]

(***************************************************************************)
(* Telemetry/Orchestration Client                                          *)
(***************************************************************************)
\* Python values returned by the client functions
PyNone == "None"
PyTrue == "True"
PyFalse == "False"

\* what requests.post does: a response, or an exception
Response(status, parseable) ==
    [url |-> "", kind |-> "response", status |-> status, parseable |-> parseable, error |-> ""]
Exception(error) ==
    [url |-> "", kind |-> "exception", status |-> 0, parseable |-> FALSE, error |-> error]
NoRequest ==
    [url |-> "", kind |-> "none", status |-> 0, parseable |-> FALSE, error |-> ""]

\* the post as sent to an endpoint
PostTo(url, post) == [post EXCEPT !.url = url]

observability_endpoint == "http://localhost:8001/events"
orchestrator_endpoint == "http://localhost:8005/route"

ObservabilityOutcomes ==
    {Response(200, TRUE), Response(500, TRUE), Exception("ConnectionError")}
OrchestratorOutcomes ==
    {Response(200, TRUE), Response(200, FALSE), Response(404, TRUE), Exception("Timeout")}

\* the parsed body of an orchestrator answer
OrchestratorBody == [route |-> "performance-optimizer"]

\* how a call ends: raised or returned, the value, the lines printed to stderr
Outcome(raised, value, printed) ==
    [raised |-> raised, value |-> value, printed |-> printed]

log_event(post) ==
    IF post.kind = "exception"
    THEN Outcome(FALSE, PyNone,
            <<<<"Warning: Could not log to observability system: ", post.error>>>>)
    ELSE IF post.status # 200
    THEN Outcome(FALSE, PyNone,
            <<<<"Warning: Observability logging failed: ", ToString(post.status)>>>>)
    ELSE Outcome(FALSE, PyNone, <<>>)

\* route_to_orchestrator with response.json() outside the try block
route_to_orchestrator_unguarded_json(post) ==
    IF post.kind = "exception"
    THEN Outcome(FALSE, NoValue,
            <<<<"Warning: Could not connect to orchestrator: ", post.error>>>>)
    ELSE IF post.status = 200
    THEN IF post.parseable
         THEN Outcome(FALSE, Some(OrchestratorBody), <<>>)
         ELSE Outcome(TRUE, "JSONDecodeError", <<>>)
    ELSE Outcome(FALSE, NoValue,
            <<<<"Warning: Orchestrator routing failed: ", ToString(post.status)>>>>)

route_to_orchestrator(post) ==
    IF post.kind = "exception"
    THEN Outcome(FALSE, NoValue,
            <<<<"Warning: Could not connect to orchestrator: ", post.error>>>>)
    ELSE IF post.status = 200
    THEN IF post.parseable
         THEN Outcome(FALSE, Some(OrchestratorBody), <<>>)
         ELSE Outcome(FALSE, NoValue,
                <<<<"Warning: Could not connect to orchestrator: ", "JSONDecodeError">>>>)
    ELSE Outcome(FALSE, NoValue,
            <<<<"Warning: Orchestrator routing failed: ", ToString(post.status)>>>>)

\* send_to_optimus that takes any answer for a success
send_to_optimus_any_answer(post) ==
    IF post.kind = "exception"
    THEN Outcome(FALSE, PyFalse, <<>>)
    ELSE Outcome(FALSE, PyTrue, <<>>)

send_to_optimus(post) ==
    IF post.kind = "exception"
    THEN Outcome(FALSE, PyFalse, <<>>)
    ELSE Outcome(FALSE, IF post.status = 200 THEN PyTrue ELSE PyFalse, <<>>)

\* f"{category}: {', '.join(agents.keys())}" for every category
AgentSummary(detected) ==
    [category \in DOMAIN detected |-> DOMAIN detected[category]]

(***************************************************************************)
(* State.                                                                  *)
(*   patterns_file, registry_file, project_dir: the files the hook reads;  *)
(*     no hook writes them.                                                *)
(*   db_objects, context_memory: the context-memory.db file, its schema    *)
(*     objects and the rows of its table.                                  *)
(*   runs: hook processes started so far;  prev: what the last finished    *)
(*     user-prompt-submit process returned.                                *)
(*   the rest: the running process: which script, where it is, its argv,   *)
(*     the hook object, the locals of process_prompt and main, the output  *)
(*     channels, the exit status (-1 while running) and what the last      *)
(*     requests.post of the process met.                                   *)
(***************************************************************************)
VARIABLES patterns_file, registry_file, project_dir,
          db_objects, context_memory,
          runs, prev,
          script, pc, argv, hook, user_prompt,
          security_issues, detected_agents, project_context,
          orchestration_result, log_event_result, send_result,
          result, stdout, stderr, exit_status, http,
          logs, procs, db_lock, trace, status_file, calls

envVars == <<patterns_file, registry_file, project_dir>>
dbVars == <<db_objects, context_memory>>
hostVars == <<logs, procs, db_lock, status_file, calls>>
localVars == <<security_issues, detected_agents, project_context,
               orchestration_result, log_event_result, send_result, result>>
vars == <<patterns_file, registry_file, project_dir, db_objects, context_memory,
          runs, prev, script, pc, argv, hook, user_prompt,
          security_issues, detected_agents, project_context,
          orchestration_result, log_event_result, send_result,
          result, stdout, stderr, exit_status, http,
          logs, procs, db_lock, trace, status_file, calls>>

SessionIds == {"5d41402a", "7d793037"}

NoHook ==
    [session_id |-> "", keyword_patterns |-> <<>>, agent_registry |-> <<>>,
     context_db |-> "unset"]

NoResult == [action |-> "none"]

NoPrev ==
    [valid |-> FALSE, user_prompt |-> <<>>, action |-> "none",
     detected_agents |-> <<>>, enhanced_prompt |-> <<>>, degraded |-> FALSE]

\* command lines of user-prompt-submit.py (sys.argv[1:])
PromptArgvs ==
    {<<>>,
     <<<<"h","e","l","l","o">>>>,
     <<<<"r","m">>, <<"-","r","f">>, <<"/">>, <<"s","l","o","w">>>>,
     <<<<"S","U","D","O">>, <<"R","m">>, <<"e","v","a","l","(","x",")">>>>,
     <<<<"f","i","x">>, <<"S","l","o","w">>, <<"T","e","s","t","s">>>>}

\* " ".join(args)
RECURSIVE JoinArgs(_)
JoinArgs(args) ==
    IF args = <<>> THEN <<>>
    ELSE IF Len(args) = 1 THEN args[1]
    ELSE args[1] \o <<" ">> \o JoinArgs(Tail(args))


(***************************************************************************)
(* Hook processes that run beside each other                               *)
(*   logs: the files of the logs directory, by name;  procs: the hook      *)
(*     processes, by process id;  db_lock: the process that holds the      *)
(*     write lock of the store file, 0 when nobody does.                   *)
(*   trace: the methods process_prompt has called in the running prompt    *)
(*     hook, in the order of the calls.                                    *)
(*   status_file: .claude/STATUS.json;  calls: the calls of the functions  *)
(*     of utils/github_issues.py made so far, each with the argument as    *)
(*     passed and as the call left it, the status file it found and what   *)
(*     it returned.                                                        *)
(***************************************************************************)
ProcIds == {1, 2}

LogHooks == {"session_start", "session-start", "stop", "subagent_stop"}

LogNames == {"session_start.json", "stop.json", "subagent_stop.json", "chat.json"}

\* log_file of the hook
LogFileOf(hook_script) ==
    IF hook_script \in {"session_start", "session-start"} THEN "session_start.json"
    ELSE IF hook_script = "stop" THEN "stop.json"
    ELSE "subagent_stop.json"

IdleProc ==
    [script |-> "none", pc |-> "idle", argv |-> <<>>, stdin |-> <<>>, started |-> 0,
     data |-> <<>>, data_type |-> PyObject(<<>>),
     log_data |-> <<>>, log_type |-> PyTuple(<<>>),
     stdout |-> <<>>, stderr |-> <<>>, exit_status |-> -1,
     session_id |-> "", context_db |-> "unset", attempts |-> 0, row |-> <<>>,
     detected_agents |-> <<>>, project_context |-> <<>>, result |-> NoResult]

\* no log hook has run: no log file, no process, the store unlocked
NoHosts ==
    /\ logs = [n \in LogNames |-> File("absent", <<>>)]
    /\ procs = [p \in ProcIds |-> IdleProc]
    /\ db_lock = 0
    /\ trace = <<>>
    /\ status_file = File("absent", <<>>)
    /\ calls = <<>>

ProcessReset ==
    /\ hook' = NoHook
    /\ user_prompt' = <<>>
    /\ security_issues' = <<>>
    /\ detected_agents' = <<>>
    /\ project_context' = <<>>
    /\ orchestration_result' = NoValue
    /\ log_event_result' = "unset"
    /\ send_result' = "unset"
    /\ result' = NoResult
    /\ stdout' = <<>>
    /\ stderr' = <<>>
    /\ exit_status' = -1
    /\ http' = NoRequest
    /\ trace' = <<>>

Init ==
    /\ patterns_file \in KeywordPatternFiles
    /\ registry_file \in AgentRegistryFiles
    /\ project_dir \in ProjectDirs
    /\ db_objects = <<>>
    /\ context_memory = <<>>
    /\ runs = 0
    /\ prev = NoPrev
    /\ script = "none"
    /\ pc = "idle"
    /\ argv = <<>>
    /\ hook = NoHook
    /\ user_prompt = <<>>
    /\ security_issues = <<>>
    /\ detected_agents = <<>>
    /\ project_context = <<>>
    /\ orchestration_result = NoValue
    /\ log_event_result = "unset"
    /\ send_result = "unset"
    /\ result = NoResult
    /\ stdout = <<>>
    /\ stderr = <<>>
    /\ exit_status = -1
    /\ http = NoRequest
    /\ NoHosts

(***************************************************************************)
(* user-prompt-submit.py                                                   *)
(***************************************************************************)
\* the host runtime starts the script on a submitted prompt
InvokeUserPromptSubmit ==
    /\ pc \in {"idle", "exited"}
    /\ runs < MaxRuns
    /\ runs' = runs + 1
    /\ \E a \in PromptArgvs : argv' = a
    /\ script' = "user-prompt-submit"
    /\ pc' = "main"
    /\ ProcessReset
    /\ UNCHANGED <<envVars, hostVars, dbVars, prev>>

\* main, to the construction of the hook
MainArguments ==
    /\ script = "user-prompt-submit" /\ pc = "main"
    /\ IF Len(argv) < 1
       THEN /\ stderr' = Append(stderr, <<"Usage: user-prompt-submit.py <user_prompt>">>)
            /\ exit_status' = 1
            /\ pc' = "exited"
            /\ UNCHANGED user_prompt
       ELSE /\ user_prompt' = JoinArgs(argv)
            /\ pc' = "construct"
            /\ UNCHANGED <<stderr, exit_status>>
    /\ UNCHANGED <<envVars, hostVars, trace, dbVars, runs, prev, script, argv, hook, localVars, stdout, http>>

\* an exception nobody catches ends the process with the traceback
Uncaught(e) ==
    /\ stderr' = Append(stderr, <<"Traceback", e>>)
    /\ exit_status' = 1
    /\ pc' = "exited"

\* UserPromptSubmitHook(): the session id, the three loads, the store
HookInit ==
    /\ script = "user-prompt-submit" /\ pc = "construct"
    /\ \E sid \in SessionIds, connects \in BOOLEAN :
        LET kp == load_keyword_patterns(patterns_file)
            ar == load_agent_registry(registry_file)
        IN  IF kp.raised
            THEN Uncaught(kp.value) /\ UNCHANGED <<hook, dbVars>>
            ELSE IF ar.raised
            THEN Uncaught(ar.value) /\ UNCHANGED <<hook, dbVars>>
            ELSE LET db == init_context_db(db_objects, connects)
                 IN  /\ db_objects' = db.objects
                     /\ IF db.raised
                        THEN Uncaught(db.value) /\ UNCHANGED <<hook, context_memory>>
                        ELSE /\ hook' = [session_id |-> sid,
                                         keyword_patterns |-> kp.value,
                                         agent_registry |-> ar.value,
                                         context_db |-> "open"]
                             /\ pc' = "process_prompt"
                             /\ UNCHANGED <<context_memory, stderr, exit_status>>
    /\ UNCHANGED <<envVars, hostVars, trace, runs, prev, script, argv, user_prompt, localVars, stdout, http>>

\* SecurityCheck without the early return: the issues are found, the block is
\* not returned and the pipeline goes on
SecurityCheckFallsThrough ==
    /\ script = "user-prompt-submit" /\ pc = "process_prompt"
    /\ security_issues' = detect_security_issues(load_security_filters, user_prompt)
    /\ pc' = "detect_agents"
    /\ trace' = Append(trace, "detect_security_issues")
    /\ UNCHANGED <<envVars, hostVars, dbVars, runs, prev, script, argv, hook, user_prompt,
                   detected_agents, project_context, orchestration_result,
                   log_event_result, send_result, result, stdout, stderr,
                   exit_status, http>>

\* process_prompt: the security check and the block decision
SecurityCheck ==
    /\ script = "user-prompt-submit" /\ pc = "process_prompt"
    /\ security_issues' = detect_security_issues(load_security_filters, user_prompt)
    /\ IF security_issues' # <<>>
       THEN /\ result' = [action |-> "block",
                          reason |-> "Security violation detected",
                          issues |-> security_issues',
                          session_id |-> hook.session_id]
            /\ pc' = "main_result"
       ELSE /\ pc' = "detect_agents"
            /\ UNCHANGED result
    /\ trace' = Append(trace, "detect_security_issues")
    /\ UNCHANGED <<envVars, hostVars, dbVars, runs, prev, script, argv, hook, user_prompt,
                   detected_agents, project_context, orchestration_result,
                   log_event_result, send_result, stdout, stderr, exit_status, http>>

\* DetectAgents that skips the detection once the store holds a row
DetectAgentsOncePerStore ==
    /\ script = "user-prompt-submit" /\ pc = "detect_agents"
    /\ detected_agents' = IF context_memory = <<>>
                          THEN detect_agents(hook.keyword_patterns, user_prompt)
                          ELSE <<>>
    /\ pc' = "get_project_context"
    /\ trace' = Append(trace, "detect_agents")
    /\ UNCHANGED <<envVars, hostVars, dbVars, runs, prev, script, argv, hook, user_prompt,
                   security_issues, project_context, orchestration_result,
                   log_event_result, send_result, result, stdout, stderr, exit_status, http>>

DetectAgents ==
    /\ script = "user-prompt-submit" /\ pc = "detect_agents"
    /\ detected_agents' = detect_agents(hook.keyword_patterns, user_prompt)
    /\ pc' = "get_project_context"
    /\ trace' = Append(trace, "detect_agents")
    /\ UNCHANGED <<envVars, hostVars, dbVars, runs, prev, script, argv, hook, user_prompt,
                   security_issues, project_context, orchestration_result,
                   log_event_result, send_result, result, stdout, stderr, exit_status, http>>

GetProjectContext ==
    /\ script = "user-prompt-submit" /\ pc = "get_project_context"
    /\ LET context == get_project_context(project_dir)
       IN  IF context.raised
           THEN Uncaught(context.value) /\ UNCHANGED project_context
           ELSE /\ project_context' = context.value
                /\ pc' = "store_context"
                /\ UNCHANGED <<stderr, exit_status>>
    /\ trace' = Append(trace, "get_project_context")
    /\ UNCHANGED <<envVars, hostVars, dbVars, runs, prev, script, argv, hook, user_prompt,
                   security_issues, detected_agents, orchestration_result,
                   log_event_result, send_result, result, stdout, http>>

\* StoreContext as an upsert on the session id: INSERT OR REPLACE keyed by
\* session_id, a row of the same session is overwritten
StoreContextReplacingSession ==
    /\ script = "user-prompt-submit" /\ pc = "store_context"
    /\ \E committed \in BOOLEAN :
        IF committed
        THEN /\ context_memory' =
                    LET row == ContextRow(Len(context_memory) + 1, hook.session_id, runs,
                                          user_prompt, detected_agents, project_context)
                        same == {i \in 1..Len(context_memory) :
                                    context_memory[i].session_id = hook.session_id}
                    IN  IF same = {}
                        THEN Append(context_memory, row)
                        ELSE [i \in 1..Len(context_memory) |->
                                IF i \in same THEN [row EXCEPT !.id = i]
                                ELSE context_memory[i]]
             /\ UNCHANGED stderr
        ELSE /\ stderr' = Append(stderr, <<"Warning: Could not store context: ", "sqlite3.OperationalError">>)
             /\ UNCHANGED context_memory
    /\ pc' = "log_event"
    /\ trace' = Append(trace, "store_context")
    /\ UNCHANGED <<envVars, hostVars, db_objects, runs, prev, script, argv, hook, user_prompt,
                   localVars, stdout, exit_status, http>>

\* StoreContext without the try/except: a failed insert leaves the process
StoreContextUnguarded ==
    /\ script = "user-prompt-submit" /\ pc = "store_context"
    /\ \E committed \in BOOLEAN :
        IF committed
        THEN /\ context_memory' = Append(context_memory,
                    ContextRow(Len(context_memory) + 1, hook.session_id, runs,
                               user_prompt, detected_agents, project_context))
             /\ pc' = "log_event"
             /\ UNCHANGED <<stderr, exit_status>>
        ELSE /\ Uncaught("sqlite3.OperationalError")
             /\ UNCHANGED context_memory
    /\ trace' = Append(trace, "store_context")
    /\ UNCHANGED <<envVars, hostVars, db_objects, runs, prev, script, argv, hook, user_prompt,
                   localVars, stdout, http>>

\* store_context: the insert commits, or sqlite raises and the warning is printed
StoreContext ==
    /\ script = "user-prompt-submit" /\ pc = "store_context"
    /\ \E committed \in BOOLEAN :
        IF committed
        THEN /\ context_memory' = Append(context_memory,
                    ContextRow(Len(context_memory) + 1, hook.session_id, runs,
                               user_prompt, detected_agents, project_context))
             /\ UNCHANGED stderr
        ELSE /\ stderr' = Append(stderr, <<"Warning: Could not store context: ", "sqlite3.OperationalError">>)
             /\ UNCHANGED context_memory
    /\ pc' = "log_event"
    /\ trace' = Append(trace, "store_context")
    /\ UNCHANGED <<envVars, hostVars, db_objects, runs, prev, script, argv, hook, user_prompt,
                   localVars, stdout, exit_status, http>>

\* log_event: the post to the observability endpoint
LogEvent ==
    /\ script = "user-prompt-submit" /\ pc = "log_event"
    /\ \E post \in ObservabilityOutcomes :
        LET r == log_event(post)
        IN  /\ http' = PostTo(observability_endpoint, post)
            /\ IF r.raised
               THEN Uncaught(r.value) /\ UNCHANGED log_event_result
               ELSE /\ stderr' = stderr \o r.printed
                    /\ log_event_result' = r.value
                    /\ pc' = "route_to_orchestrator"
                    /\ UNCHANGED exit_status
    /\ trace' = Append(trace, "log_event")
    /\ UNCHANGED <<envVars, hostVars, dbVars, runs, prev, script, argv, hook, user_prompt,
                   security_issues, detected_agents, project_context,
                   orchestration_result, send_result, result, stdout>>

\* route_to_orchestrator: the post to the orchestrator endpoint
RouteToOrchestrator ==
    /\ script = "user-prompt-submit" /\ pc = "route_to_orchestrator"
    /\ \E post \in OrchestratorOutcomes :
        LET r == route_to_orchestrator(post)
        IN  /\ http' = PostTo(orchestrator_endpoint, post)
            /\ IF r.raised
               THEN Uncaught(r.value) /\ UNCHANGED orchestration_result
               ELSE /\ stderr' = stderr \o r.printed
                    /\ orchestration_result' = r.value
                    /\ pc' = "return"
                    /\ UNCHANGED exit_status
    /\ trace' = Append(trace, "route_to_orchestrator")
    /\ UNCHANGED <<envVars, hostVars, dbVars, runs, prev, script, argv, hook, user_prompt,
                   security_issues, detected_agents, project_context,
                   log_event_result, send_result, result, stdout>>

\* ReturnContinue with the annotation made to depend on the routing answer
ReturnContinueWhenRouted ==
    /\ script = "user-prompt-submit" /\ pc = "return"
    /\ result' = [action |-> "continue",
                  session_id |-> hook.session_id,
                  detected_agents |-> detected_agents,
                  project_context |-> project_context,
                  orchestration_result |-> orchestration_result,
                  enhanced_prompt |->
                    IF orchestration_result = NoValue
                    THEN user_prompt
                    ELSE enhance_prompt(user_prompt, detected_agents, project_context)]
    /\ pc' = "main_result"
    /\ trace' = Append(trace, "enhance_prompt")
    /\ UNCHANGED <<envVars, hostVars, dbVars, runs, prev, script, argv, hook, user_prompt,
                   security_issues, detected_agents, project_context,
                   orchestration_result, log_event_result, send_result,
                   stdout, stderr, exit_status, http>>

\* process_prompt: the continue decision with the enhanced prompt
ReturnContinue ==
    /\ script = "user-prompt-submit" /\ pc = "return"
    /\ result' = [action |-> "continue",
                  session_id |-> hook.session_id,
                  detected_agents |-> detected_agents,
                  project_context |-> project_context,
                  orchestration_result |-> orchestration_result,
                  enhanced_prompt |-> enhance_prompt(user_prompt, detected_agents, project_context)]
    /\ pc' = "main_result"
    /\ trace' = Append(trace, "enhance_prompt")
    /\ UNCHANGED <<envVars, hostVars, dbVars, runs, prev, script, argv, hook, user_prompt,
                   security_issues, detected_agents, project_context,
                   orchestration_result, log_event_result, send_result,
                   stdout, stderr, exit_status, http>>

Degraded(err) ==
    \E i \in 1..Len(err) :
        err[i][1] \in {"Warning: Observability logging failed: ",
                       "Warning: Could not log to observability system: ",
                       "Warning: Orchestrator routing failed: ",
                       "Warning: Could not connect to orchestrator: "}

\* main, from the result of process_prompt to the end of the process
MainResult ==
    /\ script = "user-prompt-submit" /\ pc = "main_result"
    /\ IF result.action = "block"
       THEN /\ stderr' = stderr \o <<<<"Security Alert: ", result.reason>>>>
                            \o [i \in 1..Len(result.issues) |-> <<"   - ">> \o result.issues[i]]
            /\ exit_status' = 1
            /\ UNCHANGED stdout
            /\ prev' = [valid |-> TRUE, user_prompt |-> user_prompt, action |-> "block",
                        detected_agents |-> <<>>,
                        enhanced_prompt |-> <<>>, degraded |-> FALSE]
       ELSE /\ stdout' = Append(stdout, result.enhanced_prompt)
            /\ stderr' = IF DOMAIN result.detected_agents # {}
                         THEN Append(stderr, <<"Agents activated: ", AgentSummary(result.detected_agents)>>)
                         ELSE stderr
            /\ exit_status' = 0
            /\ prev' = [valid |-> TRUE, user_prompt |-> user_prompt, action |-> "continue",
                        detected_agents |-> result.detected_agents,
                        enhanced_prompt |-> result.enhanced_prompt,
                        degraded |-> Degraded(stderr)]
    /\ pc' = "exited"
    /\ UNCHANGED <<envVars, hostVars, trace, dbVars, runs, script, argv, hook, user_prompt, localVars, http>>

(***************************************************************************)
(* agent-observability.py                                                  *)
(***************************************************************************)
\* command lines of agent-observability.py (sys.argv[1:])
ObservabilityArgvs ==
    {<<>>,
     <<"post-tool-use", "Bash">>,
     <<"post-tool-use", "Bash", "{}">>,
     <<"post-tool-use", "Bash", "{bad">>,
     <<"agent-activation", "ai-engineer", "build">>,
     <<"agent-activation", "ai-engineer", "build", "{bad">>,
     <<"agent-collaboration", "ai-engineer", "code-reviewer", "review", "{}">>,
     <<"pre-tool-use", "Bash", "{}">>}

\* the arguments json.loads accepts
ParseableJson == {"{}"}

OPTIMUS_TELEMETRY_ENDPOINT == "http://localhost:3051/api/agent/activity"
OPTIMUS_COLLABORATION_ENDPOINT == "http://localhost:3051/api/agent/collaboration"

\* json.loads(args[k]) if the argument is given, in the way main guards it
LoadsArg(args, k) ==
    IF Len(args) >= k /\ args[k] \notin ParseableJson
    THEN Raised("JSONDecodeError")
    ELSE Returned(<<>>)

\* main up to the call of send_to_optimus: the endpoint it posts to, "" when
\* it returns without posting, or the exception that leaves main
ObservabilityDispatch(args) ==
    IF Len(args) < 1 THEN Returned("")
    ELSE IF args[1] = "post-tool-use" /\ Len(args) >= 3
    THEN IF args[3] # "" /\ args[3] \notin ParseableJson
         THEN Returned("")
         ELSE Returned(OPTIMUS_TELEMETRY_ENDPOINT)
    ELSE IF args[1] = "agent-activation" /\ Len(args) >= 3
    THEN IF LoadsArg(args, 4).raised
         THEN LoadsArg(args, 4)
         ELSE Returned(OPTIMUS_TELEMETRY_ENDPOINT)
    ELSE IF args[1] = "agent-collaboration" /\ Len(args) >= 4
    THEN IF LoadsArg(args, 5).raised
         THEN LoadsArg(args, 5)
         ELSE Returned(OPTIMUS_COLLABORATION_ENDPOINT)
    ELSE Returned("")

InvokeAgentObservability ==
    /\ pc \in {"idle", "exited"}
    /\ runs < MaxRuns
    /\ runs' = runs + 1
    /\ \E a \in ObservabilityArgvs : argv' = a
    /\ script' = "agent-observability"
    /\ pc' = "main"
    /\ ProcessReset
    /\ UNCHANGED <<envVars, hostVars, dbVars, prev>>

ObservabilityMain ==
    /\ script = "agent-observability" /\ pc = "main"
    /\ LET d == ObservabilityDispatch(argv)
       IN  IF d.raised
           THEN Uncaught(d.value)
           ELSE IF d.value = ""
           THEN pc' = "exited" /\ exit_status' = 0 /\ UNCHANGED stderr
           ELSE pc' = "send_to_optimus" /\ UNCHANGED <<stderr, exit_status>>
    /\ UNCHANGED <<envVars, hostVars, trace, dbVars, runs, prev, script, argv, hook, user_prompt,
                   localVars, stdout, http>>

\* track_tool_use, track_agent_activation, track_collaboration: the post
SendToOptimus ==
    /\ script = "agent-observability" /\ pc = "send_to_optimus"
    /\ \E post \in ObservabilityOutcomes :
        LET r == send_to_optimus(post)
        IN  /\ http' = PostTo(ObservabilityDispatch(argv).value, post)
            /\ IF r.raised /\ argv[1] # "post-tool-use"
               THEN Uncaught(r.value) /\ UNCHANGED send_result
               ELSE /\ send_result' = IF r.raised THEN send_result ELSE r.value
                    /\ stderr' = stderr \o r.printed
                    /\ exit_status' = 0
                    /\ pc' = "exited"
    /\ UNCHANGED <<envVars, hostVars, trace, dbVars, runs, prev, script, argv, hook, user_prompt,
                   security_issues, detected_agents, project_context,
                   orchestration_result, log_event_result, result, stdout>>

Next ==
    \/ InvokeUserPromptSubmit
    \/ MainArguments
    \/ HookInit
    \/ SecurityCheck
    \/ DetectAgents
    \/ GetProjectContext
    \/ StoreContext
    \/ LogEvent
    \/ RouteToOrchestrator
    \/ ReturnContinue
    \/ MainResult
    \/ InvokeAgentObservability
    \/ ObservabilityMain
    \/ SendToOptimus

Spec == Init /\ [][Next]_vars

(***************************************************************************)
(* The pure functions called directly, as a unit test calls them: on a     *)
(* hook whose taxonomy is given, a prompt built from pieces and a project  *)
(* directory.                                                              *)
(***************************************************************************)
Pieces ==
    {<<"r","m"," ","-","r","f"," ","/">>,
     <<"S","U","D","O"," "," ","R","m">>,
     <<"s","u","d","o">>,
     <<" ","r","m">>,
     <<"e","v","a","l"," ","(">>,
     <<"c","u","r","l"," ","u"," ","|","s","h">>,
     <<"A","p","i","-","K","e","y"," ","="," ","'","k","'">>,
     <<"s","l","o","w">>,
     <<"T","e","s","t">>}

RECURSIVE Concat(_)
Concat(pieces) ==
    IF pieces = <<>> THEN <<>> ELSE pieces[1] \o Concat(Tail(pieces))

Prompts ==
    {Concat(ps) : ps \in UNION {[1..n -> Pieces] : n \in 0..MaxPieces}}

Taxonomies == {DefaultKeywordPatterns, FixtureKeywordPatterns}

InitFn ==
    /\ patterns_file = File("absent", <<>>)
    /\ registry_file = File("absent", <<>>)
    /\ project_dir \in ProjectDirs
    /\ db_objects = <<>>
    /\ context_memory = <<>>
    /\ runs = 0
    /\ prev = NoPrev
    /\ script = "unit"
    /\ pc = "detect_security_issues"
    /\ argv = <<>>
    /\ \E t \in Taxonomies :
        hook = [session_id |-> "", keyword_patterns |-> t,
                agent_registry |-> <<>>, context_db |-> "unset"]
    /\ user_prompt \in Prompts
    /\ security_issues = <<>>
    /\ detected_agents = <<>>
    /\ project_context = <<>>
    /\ orchestration_result = NoValue
    /\ log_event_result = "unset"
    /\ send_result = "unset"
    /\ result = NoResult
    /\ stdout = <<>>
    /\ stderr = <<>>
    /\ exit_status = -1
    /\ http = NoRequest
    /\ NoHosts

CallDetectSecurityIssues ==
    /\ script = "unit" /\ pc = "detect_security_issues"
    /\ security_issues' = detect_security_issues(load_security_filters, user_prompt)
    /\ pc' = "detect_agents"
    /\ UNCHANGED <<envVars, hostVars, trace, dbVars, runs, prev, script, argv, hook, user_prompt,
                   detected_agents, project_context, orchestration_result,
                   log_event_result, send_result, result, stdout, stderr,
                   exit_status, http>>

CallDetectAgents ==
    /\ script = "unit" /\ pc = "detect_agents"
    /\ detected_agents' = detect_agents(hook.keyword_patterns, user_prompt)
    /\ project_context' = get_project_context(project_dir).value
    /\ pc' = "enhance_prompt"
    /\ UNCHANGED <<envVars, hostVars, trace, dbVars, runs, prev, script, argv, hook, user_prompt,
                   security_issues, orchestration_result, log_event_result,
                   send_result, result, stdout, stderr, exit_status, http>>

CallEnhancePrompt ==
    /\ script = "unit" /\ pc = "enhance_prompt"
    /\ result' = [action |-> "unit",
                  enhanced_prompt |-> enhance_prompt(user_prompt, detected_agents, project_context)]
    /\ pc' = "returned"
    /\ UNCHANGED <<envVars, hostVars, trace, dbVars, runs, prev, script, argv, hook, user_prompt,
                   security_issues, detected_agents, project_context,
                   orchestration_result, log_event_result, send_result,
                   stdout, stderr, exit_status, http>>

NextFn ==
    \/ CallDetectSecurityIssues
    \/ CallDetectAgents
    \/ CallEnhancePrompt

SpecFn == InitFn /\ [][NextFn]_vars

(***************************************************************************)
(* The project context probe on its own: get_project_context in working    *)
(* directories whose instructions file is absent, unreadable, undecodable  *)
(* or of a length around the limit of the excerpt                          *)
(***************************************************************************)
\* lengths from ExcerptLimit - MaxExcess to ExcerptLimit + MaxExcess
MaxExcess == 1

Repeat(pattern, n) == [i \in 1..n |-> pattern[((i - 1) % Len(pattern)) + 1]]

InstructionTexts ==
    {Repeat(pattern, n) :
        pattern \in {<<"a", "b", "c", "\n">>, <<"x", "\r", "\n", "y", "\r">>},
        n \in {0, 2 * ExcerptLimit}
                \cup ((ExcerptLimit - MaxExcess)..(ExcerptLimit + MaxExcess))}

ProbeDirs ==
    {[cwd |-> <<"/", "w">>, files |-> files, claude_md |-> File("absent", <<>>)] :
        files \in SUBSET {"package.json", ".claude", ".git"}}
    \cup
    {[cwd |-> <<"/", "w">>, files |-> files \cup {"CLAUDE.md"}, claude_md |-> f] :
        files \in SUBSET {"package.json", ".claude", ".git"},
        f \in {File("unreadable", <<>>), File("undecodable", <<>>)}
                \cup {File("ok", text) : text \in InstructionTexts}}

InitProbe ==
    /\ patterns_file = File("absent", <<>>)
    /\ registry_file = File("absent", <<>>)
    /\ project_dir \in ProbeDirs
    /\ db_objects = <<>>
    /\ context_memory = <<>>
    /\ runs = 0
    /\ prev = NoPrev
    /\ script = "probe"
    /\ pc = "get_project_context"
    /\ argv = <<>>
    /\ hook = NoHook
    /\ user_prompt = <<>>
    /\ security_issues = <<>>
    /\ detected_agents = <<>>
    /\ project_context = <<>>
    /\ orchestration_result = NoValue
    /\ log_event_result = "unset"
    /\ send_result = "unset"
    /\ result = NoResult
    /\ stdout = <<>>
    /\ stderr = <<>>
    /\ exit_status = -1
    /\ http = NoRequest
    /\ NoHosts

CallGetProjectContext ==
    /\ script = "probe" /\ pc = "get_project_context"
    /\ LET context == get_project_context(project_dir)
       IN  IF context.raised
           THEN /\ result' = [action |-> "raised"]
                /\ UNCHANGED project_context
           ELSE /\ result' = [action |-> "returned"]
                /\ project_context' = context.value
    /\ pc' = "returned"
    /\ UNCHANGED <<envVars, hostVars, trace, dbVars, runs, prev, script, argv, hook, user_prompt,
                   security_issues, detected_agents, orchestration_result,
                   log_event_result, send_result, stdout, stderr, exit_status, http>>

NextProbe == CallGetProjectContext

SpecProbe == InitProbe /\ [][NextProbe]_vars

(***************************************************************************)
(* The event-log hooks: session_start.py, session-start.py, stop.py and    *)
(* subagent_stop.py                                                        *)
(***************************************************************************)
\* hook processes started in a behaviour
MaxLogRuns == 2

\* what the host runtime writes to the standard input of a hook
StdinTexts ==
    {<<>>,
     <<" ", "\n">>,
     <<"{", "\"", "session_id", "\"", ":", " ", "\"", "s", "1", "\"", "}">>,
     <<"{", "\"", "transcript", "\"", ":", " ", "[", "\"", "h", "i", "\"", "]", ",", " ", "\"", "session_id", "\"", ":", " ", "\"", "s", "2", "\"", "}">>,
     <<"{", "\"", "session_id", "\"", ":", " ", "\"", "s", "3">>,
     <<"[", "\"", "t", "r", "a", "n", "s", "c", "r", "i", "p", "t", "\"", "]">>}

\* the stdin of hooks started while another hook runs
ConcurrentStdinTexts ==
    {<<>>,
     <<"{", "\"", "session_id", "\"", ":", " ", "\"", "s", "1", "\"", "}">>}

LogHookArgvs == {<<>>, <<"--chat">>, <<"--verbose">>}

\* an entry an earlier session left in a log
OldEntry(n) == ("session_id" :> <<"s", ToString(n)>>) @@ ("timestamp" :> <<"T", ToString(n)>>)

OldEntries(n) == [i \in 1..n |-> OldEntry(9 - n + i)]

\* the log files a hook can find: none, an empty one, one cut off in the
\* middle, arrays of no, one and two entries, an object, one it may not open
LogFileStates ==
    {File("absent", <<>>),
     File("ok", <<>>),
     File("ok", <<"[", "\n", " ", " ", "{", "\n", " ", " ", " ", " ", "\"", "session_id", "\"", ":", " ", "\"", "s">>),
     File("ok", <<"[", "]">>),
     File("ok", JsonText(OldEntries(1), PyList(PyDict(PyStr)), 2, 0)),
     File("ok", JsonText(OldEntries(2), PyList(PyDict(PyStr)), 2, 0)),
     File("ok", <<"{", "}">>),
     File("denied", <<>>)}

\* datetime.now().isoformat() of the n-th process
Timestamp(n) == <<"T", ToString(n)>>

\* str.strip() is empty
IsBlank(text) == \A i \in 1..Len(text) : text[i] \in Whitespace

\* main: data = json.loads(input_data) if input_data.strip() else {}
ReadInput(stdin) ==
    IF IsBlank(stdin)
    THEN [raised |-> FALSE, value |-> <<>>, type |-> PyObject(<<>>)]
    ELSE json_loads(stdin)

\* data['timestamp'] = ...: the item assignment on what stdin held
SetTimestamp(data, type, timestamp) ==
    IF type.t \in {"dict", "object"}
    THEN [raised |-> FALSE,
          value |-> ("timestamp" :> timestamp) @@ data,
          type |-> PyObject(("timestamp" :> PyStr)
                            @@ (IF type.t = "object" THEN type.fs
                                ELSE [k \in DOMAIN data |-> type.e]))]
    ELSE [raised |-> TRUE, value |-> "TypeError", type |-> PyStr]

\* the read of the log that lets the decode error of json.load pass
ReadLogUnguarded(f) ==
    IF f.state = "absent"
    THEN [raised |-> FALSE, value |-> <<>>, type |-> PyTuple(<<>>)]
    ELSE IF f.state = "denied"
    THEN [raised |-> TRUE, value |-> "PermissionError", type |-> PyStr]
    ELSE json_loads(f.json)

\* log_data = []; if log_file.exists(): try json.load, except
\* json.JSONDecodeError: log_data = []
ReadLog(f) ==
    IF f.state = "absent"
    THEN [raised |-> FALSE, value |-> <<>>, type |-> PyTuple(<<>>)]
    ELSE IF f.state = "denied"
    THEN [raised |-> TRUE, value |-> "PermissionError", type |-> PyStr]
    ELSE LET loaded == json_loads(f.json)
         IN  IF loaded.raised
             THEN [raised |-> FALSE, value |-> <<>>, type |-> PyTuple(<<>>)]
             ELSE loaded

\* log_data.append(data)
AppendEntry(log_data, log_type, data, data_type) ==
    IF log_type.t \in {"list", "tuple"}
    THEN [raised |-> FALSE,
          value |-> Append(log_data, data),
          type |-> PyTuple(Append(IF log_type.t = "tuple" THEN log_type.es
                                  ELSE [i \in 1..Len(log_data) |-> log_type.e],
                                  data_type))]
    ELSE [raised |-> TRUE, value |-> "AttributeError", type |-> PyStr]

\* f.write at the start of a file opened for writing: the text lies over what
\* the file holds by then
WriteAtStart(content, text) ==
    text \o SubSeq(content, Len(text) + 1, Len(content))

\* 'transcript' in data
HasTranscript(data, type) ==
    IF type.t \in {"dict", "object"} THEN "transcript" \in DOMAIN data
    ELSE IF type.t = "str" THEN Contains(data, <<"t", "r", "a", "n", "s", "c", "r", "i", "p", "t">>)
    ELSE IF type.t = "tuple"
    THEN \E i \in 1..Len(data) : type.es[i].t = "str" /\ data[i] = <<"t", "r", "a", "n", "s", "c", "r", "i", "p", "t">>
    ELSE FALSE

HookErrorPrefix(hook_script) ==
    IF hook_script = "stop" THEN "Error in stop hook: "
    ELSE IF hook_script = "subagent_stop" THEN "Error in subagent_stop hook: "
    ELSE "Error in session_start hook: "

\* the except clauses of main: what is printed, and sys.exit(0)
HookFails(p, e) ==
    procs' = [procs EXCEPT
        ![p].pc = "exited",
        ![p].exit_status = 0,
        ![p].stdout =
            IF procs[p].script = "session-start"
            THEN Append(@, [status |-> "error", error |-> e])
            ELSE @,
        ![p].stderr =
            IF procs[p].script = "session-start" /\ e = "JSONDecodeError"
            THEN @
            ELSE Append(@, <<HookErrorPrefix(procs[p].script), e>>)]

\* the host runtime starts a log hook; alone is whether it waits for the
\* hooks that run to end (the process then takes the place of the last one)
StartLogHook(p, alone, stdins) ==
    /\ procs[p].pc \in {"idle", "exited"}
    /\ alone => p = 1
    /\ runs < MaxLogRuns
    /\ runs' = runs + 1
    /\ \E s \in LogHooks, input \in stdins, a \in LogHookArgvs :
        /\ a # <<>> => (alone /\ s \in {"stop", "subagent_stop"})
        /\ procs' = [procs EXCEPT ![p] =
                [IdleProc EXCEPT !.script = s, !.pc = "main", !.argv = a,
                                 !.stdin = input, !.started = runs + 1]]
    /\ UNCHANGED <<envVars, trace, status_file, calls, dbVars, logs, db_lock, prev, script, pc, argv, hook,
                   user_prompt, localVars, stdout, stderr, exit_status, http>>

StartLogHookAlone == \E p \in ProcIds : StartLogHook(p, TRUE, StdinTexts)

StartLogHookConcurrently == \E p \in ProcIds : StartLogHook(p, FALSE, ConcurrentStdinTexts)

\* main to the call of the log writer: parse_args of stop.py and
\* subagent_stop.py, then stdin
LogHookMain(p) ==
    /\ procs[p].script \in LogHooks /\ procs[p].pc = "main"
    /\ IF procs[p].script \in {"stop", "subagent_stop"}
            /\ \E i \in 1..Len(procs[p].argv) : procs[p].argv[i] # "--chat"
       THEN procs' = [procs EXCEPT
                ![p].pc = "exited",
                ![p].exit_status = 2,
                ![p].stderr = Append(@, <<"usage: ", "error: unrecognized arguments">>)]
       ELSE LET input == ReadInput(procs[p].stdin)
            IN  IF input.raised
                THEN HookFails(p, input.value)
                ELSE procs' = [procs EXCEPT
                        ![p].pc = "log",
                        ![p].data = input.value,
                        ![p].data_type = input.type]
    /\ UNCHANGED <<envVars, trace, status_file, calls, dbVars, logs, db_lock, runs, prev, script, pc, argv, hook,
                   user_prompt, localVars, stdout, stderr, exit_status, http>>

\* LogRead with the decode error of the log left to main
LogReadStrict(p) ==
    /\ procs[p].script \in LogHooks /\ procs[p].pc = "log"
    /\ LET stamped == IF procs[p].script = "subagent_stop"
                      THEN [raised |-> FALSE, value |-> procs[p].data,
                            type |-> procs[p].data_type]
                      ELSE SetTimestamp(procs[p].data, procs[p].data_type,
                                        Timestamp(procs[p].started))
           loaded == ReadLogUnguarded(logs[LogFileOf(procs[p].script)])
           appended == AppendEntry(loaded.value, loaded.type, stamped.value, stamped.type)
       IN  IF stamped.raised THEN HookFails(p, stamped.value)
           ELSE IF loaded.raised THEN HookFails(p, loaded.value)
           ELSE IF appended.raised THEN HookFails(p, appended.value)
           ELSE procs' = [procs EXCEPT
                    ![p].pc = "open",
                    ![p].data = stamped.value,
                    ![p].data_type = stamped.type,
                    ![p].log_data = appended.value,
                    ![p].log_type = appended.type]
    /\ UNCHANGED <<envVars, trace, status_file, calls, dbVars, logs, db_lock, runs, prev, script, pc, argv, hook,
                   user_prompt, localVars, stdout, stderr, exit_status, http>>

\* the log writer to the end of its read: the timestamp, the read of the
\* log, the append in memory
LogRead(p) ==
    /\ procs[p].script \in LogHooks /\ procs[p].pc = "log"
    /\ LET stamped == IF procs[p].script = "subagent_stop"
                      THEN [raised |-> FALSE, value |-> procs[p].data,
                            type |-> procs[p].data_type]
                      ELSE SetTimestamp(procs[p].data, procs[p].data_type,
                                        Timestamp(procs[p].started))
           loaded == ReadLog(logs[LogFileOf(procs[p].script)])
           appended == AppendEntry(loaded.value, loaded.type, stamped.value, stamped.type)
       IN  IF stamped.raised THEN HookFails(p, stamped.value)
           ELSE IF loaded.raised THEN HookFails(p, loaded.value)
           ELSE IF appended.raised THEN HookFails(p, appended.value)
           ELSE procs' = [procs EXCEPT
                    ![p].pc = "open",
                    ![p].data = stamped.value,
                    ![p].data_type = stamped.type,
                    ![p].log_data = appended.value,
                    ![p].log_type = appended.type]
    /\ UNCHANGED <<envVars, trace, status_file, calls, dbVars, logs, db_lock, runs, prev, script, pc, argv, hook,
                   user_prompt, localVars, stdout, stderr, exit_status, http>>

\* open(log_file, 'w'): the file is there and empty
LogOpen(p) ==
    /\ procs[p].script \in LogHooks /\ procs[p].pc = "open"
    /\ LET name == LogFileOf(procs[p].script)
       IN  IF logs[name].state = "denied"
           THEN HookFails(p, "PermissionError") /\ UNCHANGED logs
           ELSE /\ logs' = [logs EXCEPT ![name] = File("ok", <<>>)]
                /\ procs' = [procs EXCEPT ![p].pc = "write"]
    /\ UNCHANGED <<envVars, trace, status_file, calls, dbVars, db_lock, runs, prev, script, pc, argv, hook,
                   user_prompt, localVars, stdout, stderr, exit_status, http>>

\* LogWrite that reads the log again and writes its entries before its own
LogWriteMerging(p) ==
    /\ procs[p].script \in LogHooks /\ procs[p].pc = "write"
    /\ LET name == LogFileOf(procs[p].script)
           again == ReadLog(logs[name])
           merged == AppendEntry(again.value, again.type, procs[p].data, procs[p].data_type)
       IN  logs' = [logs EXCEPT ![name] =
                        File("ok", JsonText(merged.value, merged.type, 2, 0))]
    /\ procs' = [procs EXCEPT ![p].pc = "after_log"]
    /\ UNCHANGED <<envVars, trace, status_file, calls, dbVars, db_lock, runs, prev, script, pc, argv, hook,
                   user_prompt, localVars, stdout, stderr, exit_status, http>>

\* json.dump(log_data, f, indent=2) and the close of the file
LogWrite(p) ==
    /\ procs[p].script \in LogHooks /\ procs[p].pc = "write"
    /\ LET name == LogFileOf(procs[p].script)
       IN  logs' = [logs EXCEPT ![name] =
                        File("ok", WriteAtStart(logs[name].json,
                                JsonText(procs[p].log_data, procs[p].log_type, 2, 0)))]
    /\ procs' = [procs EXCEPT ![p].pc = "after_log"]
    /\ UNCHANGED <<envVars, trace, status_file, calls, dbVars, db_lock, runs, prev, script, pc, argv, hook,
                   user_prompt, localVars, stdout, stderr, exit_status, http>>

\* main behind the log writer: the transcript, the messages, the end of the
\* process (the spoken announcement of subagent_stop.py is left out)
LogHookFinish(p) ==
    /\ procs[p].script \in LogHooks /\ procs[p].pc = "after_log"
    /\ LET s == procs[p].script
           chat == procs[p].argv # <<>> /\ s \in {"stop", "subagent_stop"}
                    /\ HasTranscript(procs[p].data, procs[p].data_type)
           message == IF s = "stop" THEN <<<<"Session ended - logs saved">>>>
                      ELSE IF s = "subagent_stop" THEN <<>>
                      ELSE <<<<"Session started - hooks system active">>>>
       IN  IF chat /\ procs[p].data_type.t \notin {"dict", "object"}
           THEN HookFails(p, "TypeError") /\ UNCHANGED logs
           ELSE IF chat /\ logs["chat.json"].state = "denied"
           THEN HookFails(p, "PermissionError") /\ UNCHANGED logs
           ELSE /\ logs' = IF chat
                           THEN [logs EXCEPT !["chat.json"] =
                                    File("ok", JsonText(procs[p].data["transcript"],
                                            procs[p].data_type.fs["transcript"], 2, 0))]
                           ELSE logs
                /\ procs' = [procs EXCEPT
                        ![p].pc = "exited",
                        ![p].exit_status = 0,
                        ![p].stderr = @ \o message,
                        ![p].stdout =
                            IF s = "session-start"
                            THEN Append(@, [status |-> "success",
                                            session_data |-> json_dumps(procs[p].data,
                                                                procs[p].data_type)])
                            ELSE @]
    /\ UNCHANGED <<envVars, trace, status_file, calls, dbVars, db_lock, runs, prev, script, pc, argv, hook,
                   user_prompt, localVars, stdout, stderr, exit_status, http>>

\* the process variables of the prompt hook while no prompt hook runs
NoProcess ==
    /\ trace = <<>>
    /\ patterns_file = File("absent", <<>>)
    /\ registry_file = File("absent", <<>>)
    /\ project_dir \in {d \in ProjectDirs : d.files = {}}
    /\ prev = NoPrev
    /\ script = "none"
    /\ pc = "idle"
    /\ argv = <<>>
    /\ hook = NoHook
    /\ user_prompt = <<>>
    /\ security_issues = <<>>
    /\ detected_agents = <<>>
    /\ project_context = <<>>
    /\ orchestration_result = NoValue
    /\ log_event_result = "unset"
    /\ send_result = "unset"
    /\ result = NoResult
    /\ stdout = <<>>
    /\ stderr = <<>>
    /\ exit_status = -1
    /\ http = NoRequest

\* the logs directory before the first hook: the three logs alike, no chat.json
InitLogsFrom(files) ==
    /\ NoProcess
    /\ status_file = File("absent", <<>>)
    /\ calls = <<>>
    /\ db_objects = <<>>
    /\ context_memory = <<>>
    /\ db_lock = 0
    /\ runs = 0
    /\ procs = [p \in ProcIds |-> IdleProc]
    /\ \E f \in files :
        logs = [n \in LogNames |-> IF n = "chat.json" THEN File("absent", <<>>) ELSE f]

InitLogs == InitLogsFrom(LogFileStates)

\* the hooks of a session, one after the other
NextLogs ==
    \/ StartLogHookAlone
    \/ \E p \in ProcIds : LogHookMain(p)
    \/ \E p \in ProcIds : LogRead(p)
    \/ \E p \in ProcIds : LogOpen(p)
    \/ \E p \in ProcIds : LogWrite(p)
    \/ \E p \in ProcIds : LogHookFinish(p)

SpecLogs == InitLogs /\ [][NextLogs]_vars

\* hooks of two sessions in one project directory, overlapping
NextLogsConcurrent ==
    \/ StartLogHookConcurrently
    \/ \E p \in ProcIds : LogHookMain(p)
    \/ \E p \in ProcIds : LogRead(p)
    \/ \E p \in ProcIds : LogOpen(p)
    \/ \E p \in ProcIds : LogWrite(p)
    \/ \E p \in ProcIds : LogHookFinish(p)

InitLogsConcurrent ==
    InitLogsFrom({f \in LogFileStates :
                    f.state = "absent" \/ f.json = JsonText(OldEntries(1), PyList(PyDict(PyStr)), 2, 0)})

SpecLogsConcurrent == InitLogsConcurrent /\ [][NextLogsConcurrent]_vars

(***************************************************************************)
(* Two prompt hooks on one store file                                      *)
(***************************************************************************)
MaxStoreRuns == 2

\* the command lines of the overlapping prompt hooks
ConcurrentPromptArgvs == {a \in PromptArgvs : Len(a) \in {1, 3}}

\* the network as the overlapping prompt hooks find it
ConcurrentPosts ==
    {<<Response(200, TRUE), Response(200, TRUE)>>,
     <<Exception("ConnectionError"), Exception("Timeout")>>}

\* what sqlite3 raises when the busy timeout of the connection has run out
LockedError == "sqlite3.OperationalError: database is locked"

\* the lock of the holder db_lock on the store file: RESERVED from its INSERT
\* on, EXCLUSIVE while its commit writes the file
LockLevel ==
    IF db_lock = 0 THEN "unlocked"
    ELSE IF procs[db_lock].pc = "committing" THEN "exclusive"
    ELSE "reserved"

\* a statement of process p finds the file locked by the other process until
\* its timeout: a writing statement by any lock, a reading one by EXCLUSIVE
Busy(p, writes) ==
    db_lock \notin {0, p} /\ (writes \/ LockLevel = "exclusive")

\* the table and the index are there: init_context_db only reads the schema
SchemaExists(objects) == init_context_db(objects, TRUE).objects = objects

\* ExitProcess that leaves the connection of the process open
ExitProcessLeavingHandle(proc, status) ==
    [proc EXCEPT !.pc = "exited", !.exit_status = status]

\* the process ends (sys.exit, or the end of the script, or the traceback):
\* nothing in the script closes the connection, the interpreter shuts down
\* and the connection and its descriptor of the store file go with the process
ExitProcess(proc, status) ==
    [proc EXCEPT !.pc = "exited", !.exit_status = status,
                 !.context_db = IF @ = "open" THEN "closed" ELSE @]

\* an exception nobody catches ends process p with the traceback
PromptHookUncaught(p, proc, e) ==
    procs' = [procs EXCEPT ![p] =
                ExitProcess([proc EXCEPT !.stderr = Append(@, <<"Traceback", e>>)], 1)]

\* the host runtime starts the script on a submitted prompt while another
\* prompt hook may be running, as the process of the first free id; main, to
\* the construction of the hook
StartPromptHook(p) ==
    /\ procs[p].pc \in {"idle", "exited"}
    /\ \A q \in 1..(p - 1) : procs[q].pc \notin {"idle", "exited"}
    /\ runs < MaxStoreRuns
    /\ runs' = runs + 1
    /\ \E a \in ConcurrentPromptArgvs :
        procs' = [procs EXCEPT ![p] =
                [IdleProc EXCEPT !.script = "user-prompt-submit", !.pc = "construct",
                                 !.argv = a, !.started = runs + 1]]
    /\ UNCHANGED <<envVars, trace, status_file, calls, dbVars, logs, db_lock, prev, script, pc, argv, hook,
                   user_prompt, localVars, stdout, stderr, exit_status, http>>

\* UserPromptSubmitHook() in process p: the session id, the two loads, then
\* init_context_db on the store file the other process may have locked
PromptHookInit(p) ==
    /\ procs[p].script = "user-prompt-submit" /\ procs[p].pc = "construct"
    /\ LET kp == load_keyword_patterns(patterns_file)
           ar == load_agent_registry(registry_file)
           connected == [procs[p] EXCEPT !.context_db = "open"]
       IN  IF kp.raised
           THEN PromptHookUncaught(p, procs[p], kp.value) /\ UNCHANGED db_objects
           ELSE IF ar.raised
           THEN PromptHookUncaught(p, procs[p], ar.value) /\ UNCHANGED db_objects
           ELSE IF Busy(p, ~SchemaExists(db_objects))
           THEN PromptHookUncaught(p, connected, LockedError) /\ UNCHANGED db_objects
           ELSE \E sid \in {s \in SessionIds : \A q \in ProcIds : procs[q].session_id # s} :
                LET db == init_context_db(db_objects, TRUE)
                IN  /\ db_objects' = db.objects
                    /\ procs' = [procs EXCEPT ![p] =
                            [connected EXCEPT !.session_id = sid, !.pc = "process_prompt"]]
    /\ UNCHANGED <<envVars, trace, status_file, calls, context_memory, logs, db_lock, runs, prev, script, pc, argv,
                   hook, user_prompt, localVars, stdout, stderr, exit_status, http>>

\* process_prompt of process p to the INSERT of store_context: the security
\* check, the detection, the project context, then the statement, which takes
\* the write lock of the file or is rejected
PromptStoreInsert(p) ==
    /\ procs[p].script = "user-prompt-submit" /\ procs[p].pc = "process_prompt"
    /\ LET prompt == JoinArgs(procs[p].argv)
           issues == detect_security_issues(load_security_filters, prompt)
           agents == detect_agents(load_keyword_patterns(patterns_file).value, prompt)
           context == get_project_context(project_dir).value
       IN  IF issues # <<>>
           THEN /\ procs' = [procs EXCEPT
                        ![p].result = [action |-> "block",
                                       reason |-> "Security violation detected",
                                       issues |-> issues,
                                       session_id |-> procs[p].session_id],
                        ![p].pc = "main_result"]
                /\ UNCHANGED db_lock
           ELSE IF Busy(p, TRUE)
           THEN /\ procs' = [procs EXCEPT
                        ![p].attempts = @ + 1,
                        ![p].detected_agents = agents,
                        ![p].project_context = context,
                        ![p].stderr = Append(@, <<"Warning: Could not store context: ", LockedError>>),
                        ![p].pc = "log_event"]
                /\ UNCHANGED db_lock
           ELSE /\ procs' = [procs EXCEPT
                        ![p].attempts = @ + 1,
                        ![p].detected_agents = agents,
                        ![p].project_context = context,
                        ![p].row = ContextRow(Len(context_memory) + 1, procs[p].session_id,
                                              procs[p].started, prompt, agents, context),
                        ![p].pc = "commit"]
                /\ db_lock' = p
    /\ UNCHANGED <<envVars, trace, status_file, calls, dbVars, logs, runs, prev, script, pc, argv, hook,
                   user_prompt, localVars, stdout, stderr, exit_status, http>>

\* commit() of store_context begins: the write lock becomes EXCLUSIVE
PromptStoreCommit(p) ==
    /\ procs[p].script = "user-prompt-submit" /\ procs[p].pc = "commit"
    /\ procs' = [procs EXCEPT ![p].pc = "committing"]
    /\ UNCHANGED <<envVars, trace, status_file, calls, dbVars, logs, db_lock, runs, prev, script, pc, argv, hook,
                   user_prompt, localVars, stdout, stderr, exit_status, http>>

\* commit() of store_context ends: the row is in the file, the lock is gone
PromptStoreCommitted(p) ==
    /\ procs[p].script = "user-prompt-submit" /\ procs[p].pc = "committing"
    /\ context_memory' = Append(context_memory, procs[p].row)
    /\ db_lock' = 0
    /\ procs' = [procs EXCEPT ![p].pc = "log_event"]
    /\ UNCHANGED <<envVars, trace, status_file, calls, db_objects, logs, runs, prev, script, pc, argv, hook,
                   user_prompt, localVars, stdout, stderr, exit_status, http>>

\* process_prompt of process p from log_event to its return
PromptHookContinue(p) ==
    /\ procs[p].script = "user-prompt-submit" /\ procs[p].pc = "log_event"
    /\ \E posts \in ConcurrentPosts :
        LET prompt == JoinArgs(procs[p].argv)
            agents == procs[p].detected_agents
            context == procs[p].project_context
            logged == log_event(posts[1])
            routed == route_to_orchestrator(posts[2])
        IN  procs' = [procs EXCEPT
                ![p].stderr = @ \o logged.printed \o routed.printed,
                ![p].result = [action |-> "continue",
                               session_id |-> procs[p].session_id,
                               detected_agents |-> agents,
                               project_context |-> context,
                               orchestration_result |-> routed.value,
                               enhanced_prompt |-> enhance_prompt(prompt, agents, context)],
                ![p].pc = "main_result"]
    /\ UNCHANGED <<envVars, trace, status_file, calls, dbVars, logs, db_lock, runs, prev, script, pc, argv, hook,
                   user_prompt, localVars, stdout, stderr, exit_status, http>>

\* main of process p, from the result of process_prompt to the end of the
\* process
PromptHookResult(p) ==
    /\ procs[p].script = "user-prompt-submit" /\ procs[p].pc = "main_result"
    /\ LET r == procs[p].result
       IN  procs' = [procs EXCEPT ![p] =
            IF r.action = "block"
            THEN ExitProcess(
                    [procs[p] EXCEPT !.stderr =
                        @ \o <<<<"Security Alert: ", r.reason>>>>
                          \o [i \in 1..Len(r.issues) |-> <<"   - ">> \o r.issues[i]]], 1)
            ELSE ExitProcess(
                    [procs[p] EXCEPT
                        !.stdout = Append(@, r.enhanced_prompt),
                        !.stderr = IF DOMAIN r.detected_agents # {}
                                   THEN Append(@, <<"Agents activated: ", AgentSummary(r.detected_agents)>>)
                                   ELSE @], 0)]
    /\ UNCHANGED <<envVars, trace, status_file, calls, dbVars, logs, db_lock, runs, prev, script, pc, argv, hook,
                   user_prompt, localVars, stdout, stderr, exit_status, http>>

\* prompts submitted from two sessions of one user, the hooks overlapping
NextStore ==
    \/ \E p \in ProcIds : StartPromptHook(p)
    \/ \E p \in ProcIds : PromptHookInit(p)
    \/ \E p \in ProcIds : PromptStoreInsert(p)
    \/ \E p \in ProcIds : PromptStoreCommit(p)
    \/ \E p \in ProcIds : PromptStoreCommitted(p)
    \/ \E p \in ProcIds : PromptHookContinue(p)
    \/ \E p \in ProcIds : PromptHookResult(p)

\* no store file yet, no configuration file, no log
InitStore == InitLogsFrom({File("absent", <<>>)})

SpecStore == InitStore /\ [][NextStore]_vars

(***************************************************************************)
(* utils/github_issues.py: the status file                                 *)
(***************************************************************************)
\* calls of save_error_locally and save_lesson_locally in a behaviour
MaxSaves == 2

\* "Keep only last 100 errors"
ErrorLogLimit == 100

\* str(status_file) of the default path
StatusPath == ".claude/STATUS.json"

\* a value json cannot write: a datetime object
PyDatetime == [t |-> "datetime"]
SomeDatetime == <<"datetime.datetime(2026, 1, 1, 0, 0)">>

\* the lessons a caller passes: a plain one, one with its date and a quoted
\* word, one with a datetime in it, one that brings its id
Lessons ==
    {[value |-> ("type" :> <<"g", "a", "p">>),
      type |-> PyDict(PyStr)],
     [value |-> ("type" :> <<"a", " ", "\"", "b", "\"">>) @@ ("date" :> <<"D", "0">>),
      type |-> PyDict(PyStr)],
     [value |-> ("type" :> <<"l", "a", "t", "e">>) @@ ("when" :> SomeDatetime),
      type |-> PyObject(("type" :> PyStr) @@ ("when" :> PyDatetime))],
     [value |-> ("type" :> <<"o", "l", "d">>) @@ ("id" :> <<"X", "-", "1">>),
      type |-> PyDict(PyStr)]}

\* the errors a caller passes: without and with its timestamp
Errors ==
    {[value |-> ("message" :> <<"b", "o", "o", "m">>),
      type |-> PyDict(PyStr)],
     [value |-> ("message" :> <<"o", "o", "p", "s">>) @@ ("timestamp" :> <<"T", "0">>),
      type |-> PyDict(PyStr)]}

\* an error an earlier call logged
LoggedError(i) == ("message" :> <<"e", ToString(i)>>)

\* a status file as an earlier call wrote it, with n errors in its log
StatusText(n) ==
    JsonText(("version" :> <<"1">>) @@ ("error_log" :> [i \in 1..n |-> LoggedError(i)]),
             PyObject(("version" :> PyStr) @@ ("error_log" :> PyList(PyDict(PyStr)))),
             2, 0)

\* the status files a call can find: none, an empty one, an empty object, one
\* cut off, an array, one whose two lists are no lists, logs of one error, of
\* one below the limit, of the limit and of more, one that may not be opened
StatusFileStates ==
    {File("absent", <<>>),
     File("ok", <<>>),
     File("ok", <<"{", "}">>),
     File("ok", <<"{", "\n", " ", " ", "\"", "version", "\"", ":", " ">>),
     File("ok", <<"[", "]">>),
     File("ok", <<"{", "\"", "lessons_learned", "\"", ":", " ", "\"", "x", "\"", ",", " ",
                  "\"", "error_log", "\"", ":", " ", "{", "}", "}">>),
     File("ok", StatusText(1)),
     File("ok", StatusText(ErrorLogLimit - 1)),
     File("ok", StatusText(ErrorLogLimit)),
     File("ok", StatusText(ErrorLogLimit + 2)),
     File("denied", <<>>)}

\* datetime.now().strftime('%Y-%m-%d') in the n-th call
DateOf(n) == <<"D", ToString(n)>>

\* the types of the values of a dict
FieldTypes(value, type) ==
    IF type.t = "object" THEN type.fs ELSE [k \in DOMAIN value |-> type.e]

\* the local variables of a call at the start of its try block: status = {},
\* the dict of the caller, the status file
Try(f, item, item_type) ==
    [raised |-> FALSE, error |-> "none", status |-> <<>>, status_type |-> PyObject(<<>>),
     item |-> item, item_type |-> item_type, file |-> f]

\* a statement of the try block raises: the statements after it are skipped
RaiseIn(frame, e) == [frame EXCEPT !.raised = TRUE, !.error = e]

\* if status_file.exists(): status = json.load(f)
LoadStatus(frame) ==
    IF frame.file.state = "absent" THEN frame
    ELSE IF frame.file.state = "denied" THEN RaiseIn(frame, "PermissionError")
    ELSE LET loaded == json_loads(frame.file.json)
         IN  IF loaded.raised THEN RaiseIn(frame, loaded.value)
             ELSE [frame EXCEPT !.status = loaded.value, !.status_type = loaded.type]

\* if key not in status: status[key] = []
InitializeList(frame, key) ==
    IF frame.raised THEN frame
    ELSE IF frame.status_type.t \notin {"dict", "object"} THEN RaiseIn(frame, "TypeError")
    ELSE IF key \in DOMAIN frame.status
    THEN [frame EXCEPT !.status_type = PyObject(FieldTypes(frame.status, @))]
    ELSE [frame EXCEPT !.status = (key :> <<>>) @@ @,
                       !.status_type = PyObject((key :> PyTuple(<<>>))
                                                    @@ FieldTypes(frame.status, @))]

\* if key not in item: item[key] = text, on the dict of the caller
SetDefault(frame, key, text) ==
    IF frame.raised \/ key \in DOMAIN frame.item THEN frame
    ELSE [frame EXCEPT !.item = (key :> text) @@ @,
                       !.item_type = PyObject((key :> PyStr) @@ FieldTypes(frame.item, @))]

\* len(x)
PyLen(value, type) ==
    IF type.t \in {"str", "list", "tuple"}
    THEN [raised |-> FALSE, value |-> Len(value)]
    ELSE IF type.t \in {"dict", "object"}
    THEN [raised |-> FALSE, value |-> Cardinality(DOMAIN value)]
    ELSE [raised |-> TRUE, value |-> "TypeError"]

\* the digits of a natural number
RECURSIVE Digits(_)
Digits(n) ==
    IF n < 10 THEN <<ToString(n)>> ELSE Digits(n \div 10) \o <<ToString(n % 10)>>

\* f"LL-{n:03d}"
LessonId(n) ==
    <<"L", "L", "-">> \o [i \in 1..(3 - Len(Digits(n))) |-> "0"] \o Digits(n)

\* if 'id' not in lesson: lesson['id'] = f"LL-{len(status['lessons_learned']) + 1:03d}"
SetLessonId(frame) ==
    IF frame.raised \/ "id" \in DOMAIN frame.item THEN frame
    ELSE LET count == PyLen(frame.status["lessons_learned"],
                            frame.status_type.fs["lessons_learned"])
         IN  IF count.raised THEN RaiseIn(frame, count.value)
             ELSE SetDefault(frame, "id", LessonId(count.value + 1))

\* status[key].append(item)
AppendTo(frame, key) ==
    IF frame.raised THEN frame
    ELSE LET appended == AppendEntry(frame.status[key], frame.status_type.fs[key],
                                     frame.item, frame.item_type)
         IN  IF appended.raised THEN RaiseIn(frame, appended.value)
             ELSE [frame EXCEPT !.status[key] = appended.value,
                                !.status_type = PyObject([@.fs EXCEPT ![key] = appended.type])]

\* the trimming that keeps the first entries: status[key][:limit]
KeepFirst(frame, key, limit) ==
    IF frame.raised \/ Len(frame.status[key]) <= limit THEN frame
    ELSE [frame EXCEPT !.status[key] = SubSeq(@, 1, limit),
                       !.status_type = PyObject([@.fs EXCEPT ![key] =
                                            PyTuple(SubSeq(@.es, 1, limit))])]

\* if len(status[key]) > limit: status[key] = status[key][-limit:]
KeepLast(frame, key, limit) ==
    IF frame.raised \/ Len(frame.status[key]) <= limit THEN frame
    ELSE [frame EXCEPT !.status[key] = SubSeq(@, Len(@) - limit + 1, Len(@)),
                       !.status_type = PyObject([@.fs EXCEPT ![key] =
                                            PyTuple(SubSeq(@.es, Len(@.es) - limit + 1,
                                                           Len(@.es)))])]

\* json can write a value of the type
RECURSIVE Serializable(_)
Serializable(type) ==
    CASE type.t \in {"str", "bool"} -> TRUE
      [] type.t \in {"list", "dict"} -> Serializable(type.e)
      [] type.t = "tuple" -> \A i \in 1..Len(type.es) : Serializable(type.es[i])
      [] type.t = "object" -> \A k \in DOMAIN type.fs : Serializable(type.fs[k])
      [] OTHER -> FALSE

\* the type with a string where json cannot write the value
RECURSIVE Replaced(_)
Replaced(type) ==
    CASE type.t \in {"str", "bool"} -> type
      [] type.t = "list" -> PyList(Replaced(type.e))
      [] type.t = "dict" -> PyDict(Replaced(type.e))
      [] type.t = "tuple" -> PyTuple([i \in 1..Len(type.es) |-> Replaced(type.es[i])])
      [] type.t = "object" -> PyObject([k \in DOMAIN type.fs |-> Replaced(type.fs[k])])
      [] OTHER -> PyStr

\* the text before the first value json cannot write
UpToDatetime(text) ==
    SubSeq(text, 1,
           (CHOOSE i \in 1..Len(text) :
                /\ text[i] = SomeDatetime[1]
                /\ \A j \in 1..(i - 1) : text[j] # SomeDatetime[1]) - 2)

\* what json.dump has written when it meets the value it cannot write: the
\* text up to that value
WrittenBeforeTypeError(status, type) == UpToDatetime(JsonText(status, Replaced(type), 2, 0))

\* with open(status_file, 'w') as f: json.dump(status, f, indent=2): the
\* file is emptied when it is opened and filled as far as json.dump comes
WriteStatus(frame) ==
    IF frame.raised THEN frame
    ELSE IF frame.file.state = "denied" THEN RaiseIn(frame, "PermissionError")
    ELSE IF ~Serializable(frame.status_type)
    THEN [frame EXCEPT !.raised = TRUE, !.error = "TypeError",
                       !.file = File("ok", WrittenBeforeTypeError(frame.status,
                                                                  frame.status_type))]
    ELSE [frame EXCEPT !.file = File("ok", JsonText(frame.status, frame.status_type, 2, 0))]

\* what a call hands back: the dict it returns, the status file it leaves,
\* the dict of the caller as it leaves it; except Exception as e: the error
ReturnFrom(frame, saved) ==
    [result |-> IF frame.raised THEN [status |-> "error", error |-> frame.error] ELSE saved,
     file |-> frame.file,
     arg |-> frame.item]

save_error_locally(error, error_type, now, f) ==
    ReturnFrom(WriteStatus(KeepLast(AppendTo(SetDefault(InitializeList(
                    LoadStatus(Try(f, error, error_type)),
                    "error_log"), "timestamp", now), "error_log"),
                    "error_log", ErrorLogLimit)),
               [status |-> "saved", file |-> StatusPath])

\* the try block of save_lesson_locally
LessonSaved(lesson, lesson_type, today, f) ==
    WriteStatus(AppendTo(SetDefault(SetLessonId(InitializeList(
            LoadStatus(Try(f, lesson, lesson_type)),
            "lessons_learned")), "date", today), "lessons_learned"))

save_lesson_locally(lesson, lesson_type, today, f) ==
    ReturnFrom(LessonSaved(lesson, lesson_type, today, f),
               [status |-> "saved",
                id |-> IF "id" \in DOMAIN lesson THEN lesson["id"]
                       ELSE LessonSaved(lesson, lesson_type, today, f).item["id"],
                file |-> StatusPath])

\* the record of a call in calls
Called(name, arg, before, out) ==
    [name |-> name, arg |-> arg.value, arg_type |-> arg.type, arg_after |-> out.arg,
     before |-> before, result |-> out.result]

\* a caller saves an error
CallSaveErrorLocally ==
    /\ runs < MaxSaves
    /\ runs' = runs + 1
    /\ \E error \in Errors :
        LET out == save_error_locally(error.value, error.type, Timestamp(runs + 1), status_file)
        IN  /\ status_file' = out.file
            /\ calls' = Append(calls, Called("save_error_locally", error, status_file, out))
    /\ UNCHANGED <<envVars, trace, dbVars, logs, procs, db_lock, prev, script, pc, argv, hook,
                   user_prompt, localVars, stdout, stderr, exit_status, http>>

\* a caller saves a lesson
CallSaveLessonLocally ==
    /\ runs < MaxSaves
    /\ runs' = runs + 1
    /\ \E lesson \in Lessons :
        LET out == save_lesson_locally(lesson.value, lesson.type, DateOf(runs + 1), status_file)
        IN  /\ status_file' = out.file
            /\ calls' = Append(calls, Called("save_lesson_locally", lesson, status_file, out))
    /\ UNCHANGED <<envVars, trace, dbVars, logs, procs, db_lock, prev, script, pc, argv, hook,
                   user_prompt, localVars, stdout, stderr, exit_status, http>>

NextStatus ==
    \/ CallSaveErrorLocally
    \/ CallSaveLessonLocally

\* no call yet, the status file as earlier sessions left it
InitStatus ==
    /\ NoProcess
    /\ db_objects = <<>>
    /\ context_memory = <<>>
    /\ db_lock = 0
    /\ runs = 0
    /\ procs = [p \in ProcIds |-> IdleProc]
    /\ logs = [n \in LogNames |-> File("absent", <<>>)]
    /\ status_file \in StatusFileStates
    /\ calls = <<>>

SpecStatus == InitStatus /\ [][NextStatus]_vars

(***************************************************************************)
(* Properties of the prompt pipeline (specification Spec)                  *)
(***************************************************************************)
\* process_prompt has been entered by the running user-prompt-submit process
InProcessPrompt ==
    script = "user-prompt-submit" /\ hook.context_db = "open"

\* process_prompt has returned to main
Returned_process_prompt ==
    InProcessPrompt /\ pc \in {"main_result", "exited"}

HasTraceback(err) ==
    \E i \in 1..Len(err) : err[i][1] = "Traceback"

\* C1: when the security filter finds issues in the prompt, process_prompt
\* returns {action: block} with exactly the issues found and the session id of
\* this invocation, and the invocation never reaches agent detection, the
\* store (no row of this invocation in context_memory), log_event or
\* route_to_orchestrator.
C1_BlockShortCircuits ==
    (InProcessPrompt /\ pc # "process_prompt" /\ security_issues # <<>>) =>
        /\ pc \in {"main_result", "exited"}
        /\ result.action = "block"
        /\ result.issues = security_issues
        /\ result.session_id = hook.session_id
        /\ detected_agents = <<>>
        /\ project_context = <<>>
        /\ \A i \in 1..Len(context_memory) : context_memory[i].timestamp # runs
        /\ log_event_result = "unset"
        /\ orchestration_result = NoValue
        /\ http = NoRequest

\* C1 witness: a second invocation is blocked on two patterns after the first
\* one stored its row
C1_Witness ==
    /\ InProcessPrompt /\ pc = "exited"
    /\ result.action = "block"
    /\ Len(result.issues) >= 2
    /\ runs = 2
    /\ Len(context_memory) = 1

\* C2: the user-prompt-submit process ends with a non-zero exit status if and
\* only if the prompt was blocked by the security filter.
C2_NonZeroExitIffBlocked ==
    (script = "user-prompt-submit" /\ pc = "exited") =>
        (exit_status # 0 <=> result.action = "block")

\* C3: two invocations on the same prompt, with the same taxonomy file and
\* project directory, return the same action and the same enhanced prompt
\* whatever log_event and route_to_orchestrator met.
C3_NetworkOutcomeIndependence ==
    (Returned_process_prompt /\ pc = "main_result"
        /\ prev.valid /\ prev.user_prompt = user_prompt) =>
        /\ result.action = prev.action
        /\ result.action = "continue" => result.enhanced_prompt = prev.enhanced_prompt

\* C3 witness: the same prompt was let through twice, once with both endpoints
\* answering 200 and once with a failure of one of them
C3_Witness ==
    /\ Returned_process_prompt /\ pc = "main_result"
    /\ prev.valid /\ prev.user_prompt = user_prompt
    /\ result.action = "continue"
    /\ DOMAIN result.detected_agents # {}
    /\ prev.degraded # Degraded(stderr)

\* C4: for a prompt that passes the security filter, whatever store_context,
\* log_event and route_to_orchestrator meet, no exception leaves
\* process_prompt and it returns action continue with session_id,
\* detected_agents, project_context and enhanced_prompt filled in; when the
\* routing failed, orchestration_result is None.
C4_ContinueDespiteFailures ==
    (InProcessPrompt /\ pc # "process_prompt" /\ security_issues = <<>>) =>
        /\ ~HasTraceback(stderr)
        /\ pc = "exited" => exit_status = 0
        /\ pc \in {"main_result", "exited"} =>
            /\ result.action = "continue"
            /\ result.session_id = hook.session_id
            /\ result.session_id \in SessionIds
            /\ result.detected_agents = detected_agents
            /\ DOMAIN result.detected_agents \subseteq DOMAIN hook.keyword_patterns
            /\ result.project_context = project_context
            /\ result.project_context.working_directory = project_dir.cwd
            /\ Len(result.enhanced_prompt) >= Len(user_prompt)
            /\ SubSeq(result.enhanced_prompt, 1, Len(user_prompt)) = user_prompt
            /\ ~(http.kind = "response" /\ http.status = 200 /\ http.parseable)
                    => result.orchestration_result = NoValue

\* C4 witness: the store, the telemetry post and the routing post all failed
\* and the process still printed the enhanced prompt
C4_Witness ==
    /\ InProcessPrompt /\ pc = "exited"
    /\ result.action = "continue"
    /\ Len(stderr) >= 3
    /\ stderr[1][1] = "Warning: Could not store context: "
    /\ http.kind = "exception"
    /\ context_memory = <<>>
    /\ stdout = <<result.enhanced_prompt>>

(***************************************************************************)
(* Properties of the pure functions (specification SpecFn)                 *)
(***************************************************************************)
\* the patterns of the fixed set that the prompt matches, ignoring case
MatchingPatterns(prompt) ==
    {k \in 1..Len(load_security_filters) :
        ReSearchIgnoreCase(load_security_filters[k].re, prompt)}

\* C5: detect_security_issues returns one issue per pattern of the fixed set
\* that matches the prompt ignoring case, in the order of the set, every
\* matching pattern reported; so the result is empty exactly when no pattern
\* matches, and it is never longer than the pattern set.
C5_OneIssuePerMatchingPattern ==
    (script = "unit" /\ pc = "detect_agents") =>
        LET M == MatchingPatterns(user_prompt)
        IN  /\ Len(security_issues) = Cardinality(M)
            /\ \A i \in 1..Len(security_issues) :
                \E k \in M :
                    /\ Cardinality({j \in M : j <= k}) = i
                    /\ security_issues[i][1] = "Potential security risk: "
                    /\ security_issues[i][2] = load_security_filters[k].pattern
            /\ (security_issues = <<>>) <=> (M = {})
            /\ Len(security_issues) <= Len(load_security_filters)
            /\ M = MatchingPatterns(Lower(user_prompt))

\* C5 witness: a prompt in mixed case that matches two patterns
C5_Witness ==
    /\ script = "unit" /\ pc = "detect_agents"
    /\ Len(security_issues) = 2
    /\ user_prompt # Lower(user_prompt)
    /\ security_issues[1][2] # security_issues[2][2]

\* the keyword occurs in the prompt, letter case ignored
OccursIgnoringCase(keyword, prompt) ==
    \E off \in 0..(Len(prompt) - Len(keyword)) :
        \A j \in 1..Len(keyword) :
            LowerChar(prompt[off + j]) = LowerChar(keyword[j])

\* the keywords of the list that occur in the prompt, in the order of the list
OccurringKeywords(keywords, prompt) ==
    LET occurs(keyword) == OccursIgnoringCase(keyword, prompt)
    IN  SelectSeq(keywords, occurs)

\* C6: detect_agents returns a mapping in which result[category][agent] is the
\* sequence, in taxonomy order, of the keywords of that agent that occur in
\* the prompt ignoring case; an agent is present only with a non-empty
\* sequence and a category only with at least one agent, so the mapping is
\* empty when no keyword of the taxonomy occurs in the prompt.
C6_DetectedAgentsAreOccurringKeywords ==
    (script = "unit" /\ pc = "enhance_prompt") =>
        LET taxonomy == hook.keyword_patterns
            expected(c, a) == OccurringKeywords(taxonomy[c][a], user_prompt)
        IN  /\ DOMAIN detected_agents \subseteq DOMAIN taxonomy
            /\ \A c \in DOMAIN detected_agents :
                /\ DOMAIN detected_agents[c] # {}
                /\ DOMAIN detected_agents[c] \subseteq DOMAIN taxonomy[c]
            /\ \A c \in DOMAIN taxonomy : \A a \in DOMAIN taxonomy[c] :
                IF expected(c, a) = <<>>
                THEN c \in DOMAIN detected_agents => a \notin DOMAIN detected_agents[c]
                ELSE /\ c \in DOMAIN detected_agents
                     /\ a \in DOMAIN detected_agents[c]
                     /\ detected_agents[c][a] = expected(c, a)
            /\ (\A c \in DOMAIN taxonomy : \A a \in DOMAIN taxonomy[c] :
                    expected(c, a) = <<>>) => detected_agents = <<>>

\* C6 witness: two categories detected, an agent with two keywords, one of
\* them written in upper case in the taxonomy
C6_Witness ==
    /\ script = "unit" /\ pc = "enhance_prompt"
    /\ Cardinality(DOMAIN detected_agents) >= 2
    /\ \E c \in DOMAIN detected_agents : \E a \in DOMAIN detected_agents[c] :
        /\ Len(detected_agents[c][a]) >= 2
        /\ \E i \in 1..Len(detected_agents[c][a]) :
            detected_agents[c][a][i] # Lower(detected_agents[c][a][i])

Range(seq) == {seq[i] : i \in 1..Len(seq)}

\* C7: enhance_prompt returns the prompt unchanged when the project has no
\* instructions file, is no git repository and no agent was detected;
\* otherwise it returns the prompt followed by exactly one annotation that
\* mentions each true signal, and the agent count in it is the number of
\* (category, agent) pairs of the detection result.
C7_EnhancedPromptAnnotation ==
    (script = "unit" /\ pc = "returned") =>
        LET e == result.enhanced_prompt
            p == user_prompt
            d == detected_agents
            pairs == UNION {{<<c, a>> : a \in DOMAIN d[c]} : c \in DOMAIN d}
            signal == project_context.has_claude_md
                        \/ project_context.git_repository \/ pairs # {}
            note == SubSeq(e, Len(p) + 1, Len(e))
            opening == "\n\n<!-- System Context: "
            counted == " specialized agents detected and available"
        IN  /\ Len(e) >= Len(p) /\ SubSeq(e, 1, Len(p)) = p
            /\ ~signal => e = p
            /\ signal =>
                /\ Len(note) >= 3
                /\ note[1] = opening /\ note[Len(note)] = " -->"
                /\ Cardinality({i \in 1..Len(note) : note[i] = opening}) = 1
                /\ Cardinality({i \in 1..Len(note) : note[i] = " -->"}) = 1
                /\ ("Local CLAUDE.md context available" \in Range(note))
                        <=> project_context.has_claude_md
                /\ ("Git repository detected" \in Range(note))
                        <=> project_context.git_repository
                /\ (counted \in Range(note)) <=> (pairs # {})
                /\ \A i \in 1..Len(note) :
                        note[i] = counted => note[i - 1] = ToString(Cardinality(pairs))
                /\ Cardinality({i \in 1..Len(note) : note[i] = " | "})
                        = Cardinality({i \in 1..Len(note) : note[i] \in
                            {"Local CLAUDE.md context available",
                             "Git repository detected", counted}}) - 1

\* C7 witness: instructions file, git repository and two agents of one
\* category
C7_Witness ==
    /\ script = "unit" /\ pc = "returned"
    /\ project_context.has_claude_md /\ project_context.git_repository
    /\ \E c \in DOMAIN detected_agents : Cardinality(DOMAIN detected_agents[c]) >= 2
    /\ result.enhanced_prompt # user_prompt

(***************************************************************************)
(* Properties of configuration loading and of the network clients          *)
(* (specification Spec)                                                    *)
(***************************************************************************)
\* C8: when keyword-patterns.json or agent-registry.json is absent, unreadable
\* or holds unparseable JSON, the hook falls back to the built-in default
\* (default taxonomy, empty registry) and no error leaves the construction of
\* the hook.
C8_ConfigurationFallback ==
    (script = "user-prompt-submit" /\ pc \notin {"main", "construct"} /\ argv # <<>>) =>
        /\ \A i \in 1..Len(stderr) :
            stderr[i][1] = "Traceback" => stderr[i][2] \notin {"OSError", "JSONDecodeError"}
        /\ hook.context_db = "open" =>
            /\ hook.keyword_patterns =
                IF patterns_file.state = "ok" THEN patterns_file.json
                ELSE DefaultKeywordPatterns
            /\ hook.agent_registry =
                IF registry_file.state = "ok" THEN registry_file.json ELSE <<>>

\* C9: route_to_orchestrator never raises; it returns the parsed body when the
\* orchestrator answers 200 with a parseable body and None for every other
\* outcome (another status, a timeout, an unparseable body).
C9_RouteReturnsBodyOrNone ==
    (script = "user-prompt-submit" /\ http.url = orchestrator_endpoint) =>
        /\ ~HasTraceback(stderr)
        /\ pc \in {"return", "main_result", "exited"}
        /\ orchestration_result =
            IF http.kind = "response" /\ http.status = 200 /\ http.parseable
            THEN Some(OrchestratorBody)
            ELSE NoValue

\* C9 witness: the orchestrator answered 200 with a body that does not parse
C9_Witness ==
    /\ script = "user-prompt-submit" /\ pc = "return"
    /\ http.url = orchestrator_endpoint
    /\ http.status = 200 /\ ~http.parseable
    /\ orchestration_result = NoValue
    /\ stderr # <<>>

Answered200 ==
    http.kind = "response" /\ http.status = 200

RowsOf(n) == {i \in 1..Len(context_memory) : context_memory[i].timestamp = n}

StoreFailed(err) ==
    \E i \in 1..Len(err) : err[i][1] = "Warning: Could not store context: "

PastStoreContext ==
    /\ InProcessPrompt
    /\ security_issues = <<>>
    /\ pc \in {"log_event", "route_to_orchestrator", "return", "main_result", "exited"}

\* an unblocked invocation has, once store_context is behind it, exactly one
\* row of its own when the store succeeded and none when it failed, and the
\* row carries its session id
OneRowPerStoredInvocation ==
    PastStoreContext =>
        /\ Cardinality(RowsOf(runs)) = IF StoreFailed(stderr) THEN 0 ELSE 1
        /\ \A i \in RowsOf(runs) : context_memory[i].session_id = hook.session_id

\* a step keeps every existing row as it is and where it is, adds at most one
\* row, and adds it only in store_context with the session id of the hook
AppendOnlyStep ==
    /\ Len(context_memory') >= Len(context_memory)
    /\ SubSeq(context_memory', 1, Len(context_memory)) = context_memory
    /\ Len(context_memory') <= Len(context_memory) + 1
    /\ Len(context_memory') = Len(context_memory) + 1 =>
        /\ script = "user-prompt-submit" /\ pc = "store_context"
        /\ context_memory'[Len(context_memory')].session_id = hook.session_id
        /\ context_memory'[Len(context_memory')].timestamp = runs

\* C11: over any sequence of invocations context_memory is append-only: no
\* existing row is updated or deleted, each unblocked invocation whose store
\* succeeds adds exactly one row, and the row carries the session id of the
\* invocation that wrote it.
C11_ContextMemoryAppendOnly ==
    []OneRowPerStoredInvocation /\ [][AppendOnlyStep]_vars

\* the second invocation of a session has stored its row behind the first
C11_Witness ==
    /\ PastStoreContext
    /\ Len(context_memory) = 2
    /\ context_memory[1].session_id = context_memory[2].session_id
    /\ context_memory[1].timestamp = 1
    /\ RowsOf(runs) = {2}


(***************************************************************************)
(* C12  round trip through the store                                       *)
(***************************************************************************)
\* SELECT ... WHERE session_id = ?: the rows of a session, in insertion order
RowsOfSession(session_id) ==
    SelectSeq(context_memory, LAMBDA row : row.session_id = session_id)

Deserializes(text, value) ==
    LET r == json_loads(text)
    IN  ~r.raised /\ r.value = value

\* C12: after store_context succeeded for (prompt, detection result, project
\* context), the rows read back for the session id hold a row whose
\* user_prompt is the prompt and whose detected_agents and project_context
\* deserialize to the values that were stored.
C12_StoreRoundTrip ==
    (InProcessPrompt /\ pc = "log_event" /\ ~StoreFailed(stderr)) =>
        LET rows == RowsOfSession(hook.session_id)
        IN  \E i \in 1..Len(rows) :
                /\ rows[i].user_prompt = user_prompt
                /\ Deserializes(rows[i].detected_agents, detected_agents)
                /\ Deserializes(rows[i].project_context, project_context)

\* a stored row whose excerpt holds a quote, a backslash and a line break and
\* whose detection result is not empty
C12_Witness ==
    /\ InProcessPrompt /\ pc = "log_event" /\ ~StoreFailed(stderr)
    /\ "claude_md_content" \in DOMAIN project_context
    /\ \E k \in 1..Len(project_context.claude_md_content) :
            project_context.claude_md_content[k] = "\n"
    /\ DOMAIN detected_agents # {}
    /\ Len(RowsOfSession(hook.session_id)) = 2


(***************************************************************************)
(* C13  init_context_db is idempotent                                      *)
(***************************************************************************)
Count(objects, name) ==
    Cardinality({i \in 1..Len(objects) : objects[i] = name})

AlreadyExists(err) ==
    \E i \in 1..Len(err) :
        err[i] = <<"Traceback", "sqlite3.OperationalError: already exists">>

\* the step of the constructor: the rows stay as they are, no statement is
\* rejected for an object that exists, and a store that was opened holds the
\* table and the index once each
InitContextDbStep ==
    (script = "user-prompt-submit" /\ pc = "construct") =>
        /\ context_memory' = context_memory
        /\ ~AlreadyExists(stderr')
        /\ hook'.context_db = "open" =>
            /\ Count(db_objects', "context_memory") = 1
            /\ Count(db_objects', "idx_session_timestamp") = 1
            /\ Len(db_objects') = 2

\* C13: init_context_db is idempotent: run once per invocation, any number of
\* times on the same store file, it leaves exactly one context_memory table
\* and one idx_session_timestamp index, never fails because they exist, and
\* leaves the existing rows unchanged.
C13_InitContextDbIdempotent ==
    /\ [](Count(db_objects, "context_memory") <= 1
            /\ Count(db_objects, "idx_session_timestamp") <= 1)
    /\ [][InitContextDbStep]_vars

\* the store was initialized a second time on a file that holds a row
C13_Witness ==
    /\ InProcessPrompt /\ pc = "process_prompt" /\ runs = 2
    /\ Len(context_memory) = 1
    /\ db_objects = <<"context_memory", "idx_session_timestamp">>


(***************************************************************************)
(* C14  the instructions excerpt                                           *)
(***************************************************************************)
Probed == script = "probe" /\ pc = "returned"

HasExcerpt == "claude_md_content" \in DOMAIN project_context

InstructionsReadable ==
    "CLAUDE.md" \in project_dir.files /\ project_dir.claude_md.state = "ok"

\* C14 as stated: the excerpt is there only when the instructions file exists
\* and is readable, and is then exactly the first min(1000, file length)
\* characters of the file; when the file is absent or reading it fails the
\* excerpt is omitted and no error reaches the caller.
C14_ExcerptIsFilePrefix ==
    Probed =>
        /\ result.action = "returned"
        /\ HasExcerpt <=> InstructionsReadable
        /\ HasExcerpt =>
            LET file == project_dir.claude_md.json
            IN  project_context.claude_md_content
                    = SubSeq(file, 1, Min(1000, Len(file)))

\* the number of characters of the file that are not the line feed of a
\* carriage return / line feed pair
NormalizedLength(file) ==
    Cardinality({i \in 1..Len(file) : ~(file[i] = "\n" /\ i > 1 /\ file[i - 1] = "\r")})

\* the excerpt is a prefix of the text that text mode reads from the file (a
\* carriage return / line feed pair is one line feed, a carriage return on its
\* own is a line feed), of the length of the limit or of the whole text
ExcerptOfNormalizedText ==
    LET file == project_dir.claude_md.json
        text == TextModeRange(file, 1, Len(file))
        excerpt == project_context.claude_md_content
    IN  /\ Len(excerpt) = Min(1000, NormalizedLength(file))
        /\ excerpt = SubSeq(text, 1, Len(excerpt))
        /\ \A k \in 1..Len(excerpt) : excerpt[k] # "\r"
        /\ (\A i \in 1..Len(file) : file[i] # "\r") =>
                excerpt = SubSeq(file, 1, Min(1000, Len(file)))

\* C14, amended: the excerpt is the first min(1000, n) characters of the text
\* of the file with its line ends normalized, n the length of that text; it is
\* there exactly when the file exists and can be read and decoded, no error
\* reaches the caller, and the probe leaves the files as they are.
C14_ExcerptIsTextPrefix ==
    /\ [](Probed =>
            /\ result.action = "returned"
            /\ HasExcerpt <=> InstructionsReadable
            /\ HasExcerpt => ExcerptOfNormalizedText
            /\ project_context.has_claude_md <=> "CLAUDE.md" \in project_dir.files)
    /\ [][project_dir' = project_dir]_vars

\* a file of twice the limit with carriage returns gave an excerpt of the limit
C14_Witness ==
    /\ Probed /\ HasExcerpt
    /\ Len(project_dir.claude_md.json) = 2 * ExcerptLimit
    /\ \E i \in 1..Len(project_dir.claude_md.json) : project_dir.claude_md.json[i] = "\r"
    /\ Len(project_context.claude_md_content) = ExcerptLimit


(***************************************************************************)
(* C15  detect_agents is deterministic                                     *)
(***************************************************************************)
PastDetectAgents ==
    /\ InProcessPrompt
    /\ security_issues = <<>>
    /\ pc \notin {"process_prompt", "detect_agents"}

LogOf(p) == logs[LogFileOf(procs[p].script)]

\* the log is absent, empty or not a JSON text
FoundUnusable(f) ==
    f.state = "absent" \/ (f.state = "ok" /\ json_loads(f.json).raised)

\* the log holds a well-formed array
FoundArray(f) ==
    /\ f.state = "ok"
    /\ ~json_loads(f.json).raised
    /\ json_loads(f.json).type.t = "tuple"

\* the event the writer is called with: an object, or for subagent_stop.py
\* whatever stdin held
IsEvent(p) ==
    procs[p].script = "subagent_stop" \/ procs[p].data_type.t \in {"dict", "object"}

\* the entry the writer makes of the event: the event itself, with the
\* timestamp set except in subagent_stop.py
IsEntryOf(entry, p) ==
    IF procs[p].script = "subagent_stop" THEN entry = procs[p].data
    ELSE /\ DOMAIN entry = DOMAIN procs[p].data \cup {"timestamp"}
         /\ entry["timestamp"] = Timestamp(procs[p].started)
         /\ \A k \in DOMAIN procs[p].data \ {"timestamp"} : entry[k] = procs[p].data[k]

\* the read step of a writer: an unusable log counts as no entries, the
\* entries of an array are kept in their order, the new entry comes last
LogReadStep(p) ==
    (procs[p].script \in LogHooks /\ procs[p].pc = "log" /\ procs'[p].pc # "log"
        /\ IsEvent(p)) =>
        LET f == LogOf(p)
            log_data == procs'[p].log_data
        IN  /\ FoundUnusable(f) =>
                /\ procs'[p].pc = "open"
                /\ Len(log_data) = 1
                /\ IsEntryOf(log_data[1], p)
            /\ FoundArray(f) =>
                /\ procs'[p].pc = "open"
                /\ Len(log_data) = Len(json_loads(f.json).value) + 1
                /\ SubSeq(log_data, 1, Len(log_data) - 1) = json_loads(f.json).value
                /\ IsEntryOf(log_data[Len(log_data)], p)

\* behind the write the log decodes to the entries the writer held
LogHoldsEntries(p) ==
    (procs[p].script \in LogHooks /\ procs[p].pc = "after_log") =>
        /\ LogOf(p).state = "ok"
        /\ ~json_loads(LogOf(p).json).raised
        /\ json_loads(LogOf(p).json).value = procs[p].log_data
        /\ procs[p].log_data[Len(procs[p].log_data)] = procs[p].data

Wrote(p) ==
    /\ procs[p].script \in LogHooks
    /\ procs[p].pc \in {"after_log", "exited"}
    /\ Len(procs[p].log_data) > 0

\* two writers of one log that both read it before either had written: each
\* holds the entries the log had then and its own
ReadTheSameLog(p, q) ==
    /\ p # q /\ Wrote(p) /\ Wrote(q)
    /\ LogFileOf(procs[p].script) = LogFileOf(procs[q].script)
    /\ Len(procs[p].log_data) = Len(procs[q].log_data)

Holds(entries, entry) == \E i \in 1..Len(entries) : entries[i] = entry

\* C20: the read-whole-file / rewrite-whole-file log writers are not safe
\* under concurrent writers: when two invocations on the same log overlap so
\* that both read before either has written, the file afterwards never holds
\* both new entries: it is cut short or mixed, or it holds the entries of one
\* writer alone.
C20_ConcurrentWritersLoseEntries ==
    \A p, q \in ProcIds :
        ReadTheSameLog(p, q) =>
            LET r == json_loads(LogOf(p).json)
            IN  \/ r.raised
                \/ r.type.t # "tuple"
                \/ Len(r.value) <= Len(procs[p].log_data)

\* both hooks have ended and the log decodes to the entries of process 2
\* alone: the entry of process 1 is lost
C20_Witness ==
    /\ ReadTheSameLog(1, 2)
    /\ procs[1].pc = "exited" /\ procs[2].pc = "exited"
    /\ procs[1].data # procs[2].data
    /\ ~json_loads(LogOf(1).json).raised
    /\ json_loads(LogOf(1).json).value = procs[2].log_data
    /\ ~Holds(json_loads(LogOf(1).json).value, procs[1].data)
    /\ Len(procs[2].log_data) = 2


(***************************************************************************)
(* C17  the pipeline of process_prompt and the ends of an invocation       *)
(***************************************************************************)
PipelineOrder == <<"store_context", "log_event", "route_to_orchestrator", "enhance_prompt">>

IsPipelineCall(name) == \E i \in 1..Len(PipelineOrder) : PipelineOrder[i] = name

\* the calls of the four pipeline methods made so far, in the order made
PipelineCalls == SelectSeq(trace, IsPipelineCall)

Ended == script = "user-prompt-submit" /\ pc = "exited"

EndedBlocked == Ended /\ result.action = "block" /\ exit_status = 1

EndedCompleted == Ended /\ result.action = "continue" /\ exit_status = 0

\* no pipeline method is called twice or out of its turn
PipelineInOrder ==
    /\ Len(PipelineCalls) <= Len(PipelineOrder)
    /\ PipelineCalls = SubSeq(PipelineOrder, 1, Len(PipelineCalls))

\* a prompt that passed the security filter is not left half way
PassedPromptCompletes ==
    (Ended /\ Len(PipelineCalls) > 0) =>
        EndedCompleted /\ PipelineCalls = PipelineOrder

EndsBlockedOrCompleted ==
    Ended => /\ EndedBlocked \/ EndedCompleted
             /\ EndedBlocked => PipelineCalls = <<>>

\* C17: for a prompt that passes the security filter the pipeline calls
\* store_context, log_event, route_to_orchestrator and enhance_prompt, each
\* once and in that order, and ends completed; every invocation ends either
\* blocked or completed.
C17_PipelineOnceThenTerminal ==
    /\ PipelineInOrder
    /\ PassedPromptCompletes
    /\ EndsBlockedOrCompleted


(***************************************************************************)
(* C18  a store operation rejected under contention                        *)
(***************************************************************************)
IsPromptHook(p) == procs[p].script = "user-prompt-submit"

PassesFilter(p) ==
    detect_security_issues(load_security_filters, JoinArgs(procs[p].argv)) = <<>>

\* the store rejected the INSERT of store_context of process p
RejectedInStoreContext(p) ==
    \E i \in 1..Len(procs[p].stderr) :
        procs[p].stderr[i] = <<"Warning: Could not store context: ", LockedError>>

\* the store rejected a statement of init_context_db of process p
RejectedInInit(p) ==
    \E i \in 1..Len(procs[p].stderr) :
        procs[p].stderr[i] = <<"Traceback", LockedError>>

\* process p has committed its row
Committed(p) ==
    IsPromptHook(p) /\ procs[p].row # <<>>
        /\ procs[p].pc \in {"log_event", "main_result", "exited"}

\* the row process p committed is in the table as p built it
RowIntact(p) ==
    \E i \in 1..Len(context_memory) :
        /\ context_memory[i] = procs[p].row
        /\ context_memory[i].id = i
        /\ context_memory[i].timestamp = procs[p].started
        /\ context_memory[i].user_prompt = JoinArgs(procs[p].argv)

\* what the claim says of process p once the store has rejected it
ToleratesRejection(p) ==
    /\ procs[p].attempts <= 1
    /\ \A i \in 1..Len(context_memory) : context_memory[i].timestamp # procs[p].started
    /\ procs[p].pc = "exited" =>
            /\ RejectedInStoreContext(p)
            /\ procs[p].result.action = "continue"
            /\ procs[p].exit_status = 0
    /\ \A q \in ProcIds \ {p} : Committed(q) => RowIntact(q)

\* the part of C18 that holds: a rejected INSERT is tolerated
RejectedInsertTolerated ==
    \A p \in ProcIds :
        (IsPromptHook(p) /\ RejectedInStoreContext(p)) => ToleratesRejection(p)

\* C18: of two prompt hooks that run as concurrent processes on one store
\* file, the one whose store operation is rejected because the other holds the
\* file makes no second attempt, reports the failure on stderr and still ends
\* with action continue and exit status 0, and the row of the other one is
\* stored intact.
C18_RejectionUnderContentionTolerated ==
    \A p \in ProcIds :
        (IsPromptHook(p) /\ PassesFilter(p)
            /\ (RejectedInStoreContext(p) \/ RejectedInInit(p)))
        => ToleratesRejection(p)

(***************************************************************************)
(* C19  the store handle at the end of the invocation                      *)
(***************************************************************************)
EndedWith(p, line) ==
    /\ IsPromptHook(p) /\ procs[p].pc = "exited"
    /\ \E i \in 1..Len(procs[p].stderr) : procs[p].stderr[i][1] = line

C19_BlockedWitness ==
    \E p \in ProcIds : EndedWith(p, "Security Alert: ") /\ procs[p].context_db = "closed"


(***************************************************************************)
(* C21  the exit status of the event-log hooks                             *)
(***************************************************************************)
\* process p ran session-start.py, stop.py or subagent_stop.py to its end
LogHookEnded(p) ==
    procs[p].script \in {"session-start", "stop", "subagent_stop"}
        /\ procs[p].pc = "exited"

\* parse_args accepts the command line of process p
ArgumentsParse(p) ==
    \A i \in 1..Len(procs[p].argv) : procs[p].argv[i] = "--chat"

\* the part of C21 that holds: whatever stdin and the log file hold, a hook
\* whose command line parses ends with status zero
ExitsZeroWhenArgumentsParse ==
    \A p \in ProcIds :
        (LogHookEnded(p) /\ ArgumentsParse(p)) => procs[p].exit_status = 0

\* C21: the session-start, stop and subagent-stop hooks never end with a
\* non-zero exit status, whatever stdin holds (nothing, invalid JSON, JSON that
\* is not an object) and whatever fails while the log file is read or written.
C21_LogHooksExitZero ==
    \A p \in ProcIds : LogHookEnded(p) => procs[p].exit_status = 0


(***************************************************************************)
(* Properties of the status file (specification SpecStatus)                *)
(***************************************************************************)
\* the status file the i-th call left
FileAfter(i) == IF i = Len(calls) THEN status_file ELSE calls[i + 1].before

Saved(call, name) == call.name = name /\ call.result.status = "saved"

\* what json.load gives for a status file, an empty dict without the file
StatusIn(f) ==
    IF f.state = "absent" THEN [raised |-> FALSE, value |-> <<>>, type |-> PyObject(<<>>)]
    ELSE IF f.state = "denied"
    THEN [raised |-> TRUE, value |-> "PermissionError", type |-> PyStr]
    ELSE json_loads(f.json)

\* the list under the key in a loaded status, empty without the key
ListOf(status, key) == IF key \in DOMAIN status THEN status[key] ELSE <<>>

\* but for the key, the two loaded status have the same keys with the same
\* values
SameButFor(before, after, key) ==
    /\ DOMAIN after.value = DOMAIN before.value \cup {key}
    /\ \A k \in DOMAIN before.value \ {key} :
        /\ after.value[k] = before.value[k]
        /\ after.type.fs[k] = before.type.fs[k]

\* the entries are the last ones of all, in their order
MostRecentOf(entries, all) ==
    /\ Len(entries) <= Len(all)
    /\ entries = SubSeq(all, Len(all) - Len(entries) + 1, Len(all))

\* C22: after every successful call of save_error_locally the error_log in
\* the status file has at most 100 entries, its last entry is the error just
\* saved, the entries kept are the most recent ones in their original order,
\* and every other key of the status file is as it was before the call
C22_ErrorLogBounded ==
    \A i \in 1..Len(calls) :
        Saved(calls[i], "save_error_locally") =>
            LET before == StatusIn(calls[i].before)
                after == StatusIn(FileAfter(i))
                all == Append(ListOf(before.value, "error_log"), calls[i].arg_after)
                error_log == after.value["error_log"]
            IN  /\ ~before.raised
                /\ ~after.raised
                /\ "error_log" \in DOMAIN after.value
                /\ Len(error_log) <= ErrorLogLimit
                /\ error_log[Len(error_log)] = calls[i].arg_after
                /\ MostRecentOf(error_log, all)
                /\ SameButFor(before, after, "error_log")

\* a call has saved an error into a full log: the oldest entry is gone, the
\* log is still full, the version is kept
C22_Witness ==
    /\ Len(calls) = 1
    /\ Saved(calls[1], "save_error_locally")
    /\ calls[1].before = File("ok", StatusText(ErrorLogLimit))
    /\ LET error_log == StatusIn(status_file).value["error_log"]
       IN  /\ Len(error_log) = ErrorLogLimit
           /\ error_log[1] = LoggedError(2)
           /\ error_log[ErrorLogLimit] = calls[1].arg_after
    /\ StatusIn(status_file).value["version"] = <<"1">>


\* the calls so far are calls of save_lesson_locally with lessons that carry
\* no id, the first of them with no status file
LessonsOnlyFromAbsent ==
    /\ Len(calls) > 0
    /\ calls[1].before.state = "absent"
    /\ \A i \in 1..Len(calls) :
        calls[i].name = "save_lesson_locally" /\ "id" \notin DOMAIN calls[i].arg

ReturnedSaved(call) == call.result.status = "saved"

\* lessons_learned in the status file holds the lessons of the calls that
\* returned saved, in call order, the k-th with id LL-00k
SavedLessonsStored ==
    LET saved == SelectSeq(calls, ReturnedSaved)
        status == StatusIn(status_file)
        lessons == ListOf(status.value, "lessons_learned")
    IN  saved # <<>> =>
            /\ ~status.raised
            /\ Len(lessons) = Len(saved)
            /\ \A k \in 1..Len(saved) :
                /\ lessons[k] = saved[k].arg_after
                /\ lessons[k]["id"] =
                        <<"L", "L", "-", "0", "0">> \o <<ToString(k)>>
            /\ \A j, k \in 1..Len(lessons) :
                lessons[j]["id"] = lessons[k]["id"] => j = k

\* a call that finds a status file it cannot parse returns status error and
\* leaves the file as it is
UnparseableLeftUnchanged ==
    \A i \in 1..Len(calls) :
        (/\ calls[i].name = "save_lesson_locally"
         /\ calls[i].before.state = "ok"
         /\ json_loads(calls[i].before.json).raised)
            => /\ calls[i].result.status = "error"
               /\ FileAfter(i) = calls[i].before

\* the lessons passed so far hold only what json can write
AllSerializable == \A i \in 1..Len(calls) : Serializable(calls[i].arg_type)

\* the numbering and the order hold as long as every lesson can be written
NumberedWhileSerializable ==
    (LessonsOnlyFromAbsent /\ AllSerializable) => SavedLessonsStored

\* C23: starting from an absent status file, after any sequence of
\* save_lesson_locally calls with lessons that carry no id, the k-th stored
\* lesson has id LL-00k, the stored ids are distinct and lessons_learned
\* holds every saved lesson in call order; and a call that finds a status
\* file it cannot parse returns status error and leaves the file unchanged
C23_LessonsNumberedInOrder ==
    /\ LessonsOnlyFromAbsent => SavedLessonsStored
    /\ UnparseableLeftUnchanged

\* two lessons saved from an absent file, stored as LL-001 and LL-002
TwoLessonsNumbered ==
    /\ LessonsOnlyFromAbsent
    /\ Len(calls) = 2
    /\ ReturnedSaved(calls[1]) /\ ReturnedSaved(calls[2])
    /\ calls[1].result.id = <<"L", "L", "-", "0", "0", "1">>
    /\ calls[2].result.id = <<"L", "L", "-", "0", "0", "2">>

\* a call has found a status file cut off in the middle
CutOffFileFound ==
    \E i \in 1..Len(calls) :
        /\ calls[i].name = "save_lesson_locally"
        /\ calls[i].before.state = "ok"
        /\ calls[i].before.json # <<>>
        /\ json_loads(calls[i].before.json).raised

====
